---------------------------- MODULE Spec2Model ----------------------------
(***************************************************************************)
(* Release-configuration loading, validation and image-tag derivation of   *)
(* huggingface/pytorch/release_utils.py, as a state machine.               *)
(*                                                                         *)
(* A Python str is a sequence of one-character strings, so that upper(),   *)
(* lower(), `in`, re.search, packaging's parse and f-string concatenation  *)
(* are computed character by character.  Python's None is the value None   *)
(* below, which is no str (its only element is not a character).           *)
(***************************************************************************)
EXTENDS Integers, Sequences, FiniteSets, TLC

None == <<"<None>">>

(***************************************************************************)
(* str primitives                                                          *)
(***************************************************************************)
LowerChars == <<"a","b","c","d","e","f","g","h","i","j","k","l","m",
                "n","o","p","q","r","s","t","u","v","w","x","y","z">>
UpperChars == <<"A","B","C","D","E","F","G","H","I","J","K","L","M",
                "N","O","P","Q","R","S","T","U","V","W","X","Y","Z">>
DigitChars == <<"0","1","2","3","4","5","6","7","8","9">>

UpperChar(c) ==
    IF \E i \in 1..26 : LowerChars[i] = c
    THEN UpperChars[CHOOSE i \in 1..26 : LowerChars[i] = c]
    ELSE c

LowerChar(c) ==
    IF \E i \in 1..26 : UpperChars[i] = c
    THEN LowerChars[CHOOSE i \in 1..26 : UpperChars[i] = c]
    ELSE c

\* str.upper()
StrUpper(s) == [i \in 1..Len(s) |-> UpperChar(s[i])]

\* str.lower()
StrLower(s) == [i \in 1..Len(s) |-> LowerChar(s[i])]

IsDigit(c) == \E i \in 1..10 : DigitChars[i] = c

DigitVal(c) == (CHOOSE i \in 1..10 : DigitChars[i] = c) - 1

\* sub in s
StrIn(sub, s) ==
    \E i \in 1..(Len(s) - Len(sub) + 1) : SubSeq(s, i, i + Len(sub) - 1) = sub

\* an f-string field: None prints as the text None
Fmt(x) == IF x = None THEN <<"N","o","n","e">> ELSE x

\* re.search(r"\d+\.\d+\.\d+", s)
SearchXYZ(s) ==
    \E a \in 2..Len(s) : \E b \in (a + 2)..(Len(s) - 1) :
        /\ s[a] = "."
        /\ s[b] = "."
        /\ IsDigit(s[a - 1])
        /\ \A k \in (a + 1)..(b - 1) : IsDigit(s[k])
        /\ IsDigit(s[b + 1])

(***************************************************************************)
(* packaging.version.parse, for the versions that are dotted numbers such  *)
(* as 1.10.0; any other text of the model's inputs is no PEP 440 version.  *)
(***************************************************************************)
RECURSIVE SplitDots(_)
SplitDots(s) ==
    IF \A i \in 1..Len(s) : s[i] # "."
    THEN <<s>>
    ELSE LET d == CHOOSE i \in 1..Len(s) :
                      s[i] = "." /\ \A j \in 1..(i - 1) : s[j] # "."
         IN  <<SubSeq(s, 1, d - 1)>> \o SplitDots(SubSeq(s, d + 1, Len(s)))

RECURSIVE DecimalValue(_)
DecimalValue(s) ==
    IF Len(s) = 0 THEN 0
    ELSE 10 * DecimalValue(SubSeq(s, 1, Len(s) - 1)) + DigitVal(s[Len(s)])

IsReleaseVersion(s) ==
    /\ s # None
    /\ \A i \in 1..Len(SplitDots(s)) :
          LET seg == SplitDots(s)[i]
          IN  Len(seg) > 0 /\ \A k \in 1..Len(seg) : IsDigit(seg[k])

\* Version.release: the tuple of integers
ReleaseTuple(s) ==
    LET parts == SplitDots(s)
    IN  [i \in 1..Len(parts) |-> DecimalValue(parts[i])]

\* Version._key drops the trailing zeros of the release before comparing
RECURSIVE StripTrailingZeros(_)
StripTrailingZeros(t) ==
    IF Len(t) > 0 /\ t[Len(t)] = 0
    THEN StripTrailingZeros(SubSeq(t, 1, Len(t) - 1))
    ELSE t

\* tuple <= tuple, as Python orders tuples
RECURSIVE TupleLeq(_, _)
TupleLeq(a, b) ==
    IF Len(a) = 0 THEN TRUE
    ELSE IF Len(b) = 0 THEN FALSE
    ELSE IF a[1] < b[1] THEN TRUE
    ELSE IF a[1] > b[1] THEN FALSE
    ELSE TupleLeq(Tail(a), Tail(b))

VersionKey(s) == StripTrailingZeros(ReleaseTuple(s))

\* mutant of VersionLeq: the comparison made strict
VersionLess(a, b) ==
    IF IsReleaseVersion(a) /\ IsReleaseVersion(b)
    THEN TupleLeq(VersionKey(a), VersionKey(b))
         /\ VersionKey(a) # VersionKey(b)
    ELSE IF ~IsReleaseVersion(a) /\ ~IsReleaseVersion(b) THEN FALSE
    ELSE ~IsReleaseVersion(a)

\* parse(a) <= parse(b).  A text that is no version parses, with a packaging
\* older than 22, to a LegacyVersion, which sorts before every Version.
VersionLeq(a, b) ==
    IF IsReleaseVersion(a) /\ IsReleaseVersion(b)
    THEN TupleLeq(VersionKey(a), VersionKey(b))
    ELSE IF ~IsReleaseVersion(a) /\ ~IsReleaseVersion(b) THEN a = b
    ELSE ~IsReleaseVersion(a)


(***************************************************************************)
(* Program constants                                                       *)
(***************************************************************************)
TGI == <<"T","G","I">>
TEI == <<"T","E","I">>
TGILLAMACPP == <<"T","G","I","L","L","A","M","A","C","P","P">>
OPTIMUM == <<"O","P","T","I","M","U","M">>
GPU == <<"G","P","U">>
INF2 == <<"I","N","F","2">>
CPU == <<"C","P","U">>

FRAMEWORK_DEVICE_DICT ==
    (TGI :> {GPU, INF2}) @@ (TEI :> {GPU, CPU}) @@ (TGILLAMACPP :> {CPU})

ECR_RELEASED_SUFFIX_TAG == <<"-","r","e","l","e","a","s","e","d">>

(***************************************************************************)
(* State                                                                   *)
(***************************************************************************)
VARIABLES
    env,                     \* os.environ, as far as the program reads it
    head_commit,             \* git.Repo().head.commit.hexsha
    configs,                 \* the parsed releases.json
    pc,                      \* where the entrypoint stands
    loadResult,              \* how ReleaseConfigs() ended
    permitted_combinations,  \* ReleaseConfigs.permitted_combinations
    releases,                \* ReleaseConfigs.releases
    validateResult,          \* how validate() ended
    stagingCall,             \* the last get_image_uri_for_staging() call
    releasedCall,            \* the last get_image_uri_for_released() call
    tick,                    \* the wall clock: the reading datetime.now() gives
    urisCall,                \* the last get_image_uris_for_dlc/_jumpstart() call
    image_uri,               \* the URI handed to the Docker and ECR clients
    built_from,              \* the host, repository and tag it was built from
    clientCall,              \* the last call of DockerClient or Aws
    registry,                \* the images the registries hold
    local,                   \* the images of the local Docker engine
    script,                  \* the entrypoint that runs: tgi or tgi-llamacpp
    phase,                   \* where the phase of the current run stands
    log,                     \* the calls the current run made, in order
    parameters,              \* the SSM parameter store
    executions,              \* the pipeline executions started so far
    completed,               \* the steps completed so far, with their run
    run,                     \* the number of the current run
    pipeline,                \* the DlcPipeline object
    execution,               \* the status of the pipeline execution started
    recent,                  \* the last calls of the DlcPipeline object
    since_start              \* time.time() - start_time in test()

\* the clients' state
clientVars == <<image_uri, built_from, clientCall, registry, local>>

\* the state of the phases
phaseVars == <<script, phase, log, parameters, executions, completed, run,
               pipeline, execution, recent, since_start>>

\* what the phases touch besides the loaded configuration
worldVars == <<tick, urisCall, clientVars, phaseVars>>

vars == <<env, head_commit, configs, pc, loadResult, permitted_combinations,
          releases, validateResult, stagingCall, releasedCall, tick, urisCall,
          clientVars, phaseVars>>

(***************************************************************************)
(* ReleaseConfigs.__init__                                                 *)
(***************************************************************************)
\* PermittedCombination.__init__: framework and device are upper-cased
PermittedCombination(framework, combination) ==
    [framework |-> StrUpper(framework),
     device |-> StrUpper(combination.device),
     min_version |-> combination.min_version,
     max_version |-> combination.max_version,
     os_version |-> combination.os_version,
     python_version |-> combination.python_version,
     pytorch_version |-> combination.pytorch_version,
     cuda_version |-> combination.cuda_version]

\* configs.get("permitted_combinations", {}).get(framework, {}), each made a
\* PermittedCombination
LoadPermitted(cfg, framework) ==
    LET raw == IF framework \in DOMAIN cfg.permitted_combinations
               THEN cfg.permitted_combinations[framework] ELSE <<>>
    IN  [i \in 1..Len(raw) |-> PermittedCombination(framework, raw[i])]

\* the loop that upper-cases device and framework of every release in place
UpperReleases(rels) ==
    [i \in 1..Len(rels) |->
        [rels[i] EXCEPT !.device = StrUpper(@), !.framework = StrUpper(@)]]

\* supported_releases: the releases of the current framework
SupportedReleases(rels, framework) ==
    SelectSeq(rels, LAMBDA item : StrUpper(item.framework) = framework)

\* mutant of ReleaseDevices: only the devices that will be loaded are checked
ReleaseDevicesOfCurrentDevice(supported) ==
    {StrUpper(supported[i].device) :
        i \in {j \in 1..Len(supported) :
                  /\ supported[j].device # <<>>
                  /\ StrUpper(supported[j].device)
                        = StrUpper(env.DEVICE_TYPE)}}

\* release_devices: the devices of the supported releases that have one
ReleaseDevices(supported) ==
    {StrUpper(supported[i].device) :
        i \in {j \in 1..Len(supported) : supported[j].device # <<>>}}

\* mutant of DeviceReleases: the devices compared as they are written
DeviceReleasesCaseSensitive(supported, device) ==
    SelectSeq(supported, LAMBDA item : item.device = device)

\* self.releases: the supported releases of the current device
DeviceReleases(supported, device) ==
    SelectSeq(supported, LAMBDA item : StrUpper(item.device) = StrUpper(device))

ReleaseConfigs_init(cfg, e) ==
    LET framework == e.FRAMEWORK
        permitted == LoadPermitted(cfg, framework)
        supported == SupportedReleases(UpperReleases(cfg.releases), framework)
        allowed   == FRAMEWORK_DEVICE_DICT[framework]
    IN  \* FRAMEWORK_DEVICE_DICT.get(framework) is None: issubset(None) raises
        IF framework \notin DOMAIN FRAMEWORK_DEVICE_DICT
        THEN [result |-> "TypeError", permitted_combinations |-> <<>>,
              releases |-> <<>>]
        ELSE IF ~(ReleaseDevices(supported) \subseteq allowed)
        THEN [result |-> "UnsupportedDevice", permitted_combinations |-> <<>>,
              releases |-> <<>>]
        ELSE [result |-> "ok", permitted_combinations |-> permitted,
              releases |-> DeviceReleases(supported, e.DEVICE_TYPE)]

(***************************************************************************)
(* ReleaseConfigs.validate                                                 *)
(***************************************************************************)
\* the three parse() calls at the head of the inner loop: with packaging 22
\* or later a text that is no version raises InvalidVersion
ParseRaises(config, allowed, legacy) ==
    /\ ~legacy
    /\ \/ ~IsReleaseVersion(config.version)
       \/ ~IsReleaseVersion(allowed.min_version)
       \/ ~IsReleaseVersion(allowed.max_version)

\* mutant of SelectsRule: the upper end of the range is not compared
SelectsRuleNoUpperEnd(config, allowed, codebuild_device) ==
    /\ StrUpper(codebuild_device) = StrUpper(config.device)
    /\ StrUpper(allowed.device) = StrUpper(config.device)
    /\ VersionLeq(allowed.min_version, config.version)

\* the condition that selects a rule for a release: device and version range
SelectsRule(config, allowed, codebuild_device) ==
    /\ StrUpper(codebuild_device) = StrUpper(config.device)
    /\ StrUpper(allowed.device) = StrUpper(config.device)
    /\ VersionLeq(allowed.min_version, config.version)
    /\ VersionLeq(config.version, allowed.max_version)

\* the cuda_version assertions
CheckCuda(config, allowed) ==
    IF config.device = StrLower(INF2)
    THEN IF config.cuda_version = None THEN "ok" ELSE "OptimumCuda"
    ELSE IF StrLower(config.device) = StrLower(GPU)
    THEN IF config.cuda_version = None THEN "TypeError"
         ELSE IF /\ StrIn(<<"c","u">>, config.cuda_version)
                 /\ config.cuda_version = allowed.cuda_version
         THEN "ok" ELSE "InvalidCuda"
    ELSE "ok"

\* the framework-version assertion
CheckVersion(config) ==
    IF SearchXYZ(config.version) THEN "ok" ELSE "InvalidFrameworkVersion"

\* mutant of CheckOs: the marker is looked for, the rule's value is not
CheckOsMarkerOnly(config, allowed) ==
    IF config.os_version = None THEN "TypeError"
    ELSE IF StrIn(<<"u","b","u","n","t","u">>, config.os_version)
    THEN "ok" ELSE "InvalidOS"

\* the os_version assertion
CheckOs(config, allowed) ==
    IF config.os_version = None THEN "TypeError"
    ELSE IF /\ StrIn(<<"u","b","u","n","t","u">>, config.os_version)
            /\ config.os_version = allowed.os_version
    THEN "ok" ELSE "InvalidOS"

\* the python_version assertion
CheckPython(config, allowed) ==
    IF config.python_version = None THEN "TypeError"
    ELSE IF /\ StrIn(<<"p","y">>, config.python_version)
            /\ config.python_version = allowed.python_version
    THEN "ok" ELSE "InvalidPython"

\* the pytorch_version assertion
CheckPytorch(config, allowed) ==
    IF config.pytorch_version = None THEN "TypeError"
    ELSE IF /\ SearchXYZ(config.pytorch_version)
            /\ config.pytorch_version = allowed.pytorch_version
    THEN "ok" ELSE "InvalidPyTorch"

\* mutant of ChecksPython: TEI is not exempted
ChecksPythonAlways(config) == TRUE

\* Python and PyTorch versions are checked unless the framework is TEI
ChecksPython(config) == config.framework # TEI

\* the body of the if: the assertions in their order, the first failure wins
CheckFields(config, allowed) ==
    IF CheckCuda(config, allowed) # "ok" THEN CheckCuda(config, allowed)
    ELSE IF CheckVersion(config) # "ok" THEN CheckVersion(config)
    ELSE IF CheckOs(config, allowed) # "ok" THEN CheckOs(config, allowed)
    ELSE IF ~ChecksPython(config) THEN "ok"
    ELSE IF CheckPython(config, allowed) # "ok"
    THEN CheckPython(config, allowed)
    ELSE CheckPytorch(config, allowed)

\* mutant of ScanRules: no break, every selected rule has its assertions run
\* and the last one stands
RECURSIVE ScanRulesNoBreak(_, _, _, _, _)
ScanRulesNoBreak(config, rules, i, codebuild_device, legacy) ==
    IF i > Len(rules)
    THEN [kind |-> "NoPermittedCombination", rule |-> 0]
    ELSE IF ParseRaises(config, rules[i], legacy)
    THEN [kind |-> "InvalidVersion", rule |-> 0]
    ELSE LET rest == ScanRulesNoBreak(config, rules, i + 1, codebuild_device,
                                      legacy)
         IN  IF ~SelectsRule(config, rules[i], codebuild_device) THEN rest
             ELSE IF CheckFields(config, rules[i]) # "ok"
             THEN [kind |-> CheckFields(config, rules[i]), rule |-> i]
             ELSE IF rest.rule # 0 \/ rest.kind = "InvalidVersion" THEN rest
             ELSE [kind |-> "ok", rule |-> i]

\* the inner loop from rule i on: the first rule the condition selects has its
\* assertions run and ends the loop (break); [kind, rule] is how the loop ended
\* for this release and the rule whose assertions were run (0: none)
RECURSIVE ScanRules(_, _, _, _, _)
ScanRules(config, rules, i, codebuild_device, legacy) ==
    IF i > Len(rules)
    THEN [kind |-> "NoPermittedCombination", rule |-> 0]
    ELSE IF ParseRaises(config, rules[i], legacy)
    THEN [kind |-> "InvalidVersion", rule |-> 0]
    ELSE IF SelectsRule(config, rules[i], codebuild_device)
    THEN [kind |-> CheckFields(config, rules[i]), rule |-> i]
    ELSE ScanRules(config, rules, i + 1, codebuild_device, legacy)

\* mutant of CheckDuplicates: whole releases are counted, not their pairs
CheckDuplicatesWholeEntry(rels, device_set) ==
    IF Len(rels) = Cardinality({rels[i] : i \in 1..Len(rels)})
    THEN "ok" ELSE "Duplicate"

\* the final assertion: as many (device, version) pairs as releases
CheckDuplicates(rels, device_set) ==
    IF Len(rels) = Cardinality(device_set) THEN "ok" ELSE "Duplicate"

\* the outer loop from release k on, then the final assertion.  The result:
\* kind (ok or the error raised), entry (the release at which it was raised,
\* 0 for none), cands (for each release gone through, the rule whose
\* assertions were run, 0 for none)
RECURSIVE ValidateFrom(_, _, _, _, _, _, _)
ValidateFrom(rels, rules, k, device_set, cands, codebuild_device, legacy) ==
    IF k > Len(rels)
    THEN [kind |-> CheckDuplicates(rels, device_set), entry |-> 0,
          cands |-> cands]
    ELSE LET r == ScanRules(rels[k], rules, 1, codebuild_device, legacy)
         IN  IF r.kind # "ok"
             THEN [kind |-> r.kind, entry |-> k,
                   cands |-> Append(cands, r.rule)]
             ELSE ValidateFrom(rels, rules, k + 1,
                      device_set \cup {<<rels[k].device, rels[k].version>>},
                      Append(cands, r.rule), codebuild_device, legacy)

validate(rels, rules, e, legacy) ==
    ValidateFrom(rels, rules, 1, {}, <<>>, e.DEVICE_TYPE, legacy)

(***************************************************************************)
(* ReleaseConfig: image URIs                                               *)
(***************************************************************************)
\* mutant of CommitHash: the HEAD commit whatever the context says
CommitHashOfHead(e, head) == head

\* os.getenv(CODEBUILD_RESOLVED_SOURCE_VERSION), else the HEAD commit
CommitHash(e, head) ==
    IF e.CODEBUILD_RESOLVED_SOURCE_VERSION = None THEN head
    ELSE e.CODEBUILD_RESOLVED_SOURCE_VERSION

get_image_uri_for_staging(config, e, head) ==
    LET tag == Fmt(config.version) \o <<"-">> \o StrLower(config.device)
               \o <<"-">> \o Fmt(CommitHash(e, head))
    IN  Fmt(e.INTERNAL_STAGING_REPO_URI) \o <<":">> \o tag

\* mutant of get_image_uri_for_released: the tag is built anew, from the
\* device as stored
get_image_uri_for_released_retagged(config, e, head) ==
    Fmt(e.INTERNAL_STAGING_REPO_URI) \o <<":">> \o Fmt(config.version)
        \o <<"-">> \o config.device \o <<"-">> \o Fmt(CommitHash(e, head))
        \o ECR_RELEASED_SUFFIX_TAG

get_image_uri_for_released(config, e, head) ==
    get_image_uri_for_staging(config, e, head) \o ECR_RELEASED_SUFFIX_TAG

\* the wall clock's readings: (year, month, day, hour, minute, second)
Clock == << <<2024, 1, 5, 9, 30, 59>>, <<2024, 1, 5, 9, 31, 0>> >>

\* "%02d"
TwoDigits(n) == <<DigitChars[(n \div 10) + 1], DigitChars[(n % 10) + 1]>>

\* datetime.datetime.now().strftime('%Y-%m-%d-%H-%M-%S')
Strftime(t) ==
    TwoDigits(t[1] \div 100) \o TwoDigits(t[1] % 100) \o <<"-">>
        \o TwoDigits(t[2]) \o <<"-">> \o TwoDigits(t[3]) \o <<"-">>
        \o TwoDigits(t[4]) \o <<"-">> \o TwoDigits(t[5]) \o <<"-">>
        \o TwoDigits(t[6])

\* mutant of BaseAndDated: the dated URI comes first
DatedAndBase(repo_uri, base_tag, t) ==
    << Fmt(repo_uri) \o <<":">> \o base_tag \o <<"-">> \o Strftime(t),
       Fmt(repo_uri) \o <<":">> \o base_tag >>

\* [f"{repo_uri}:{tag}" for tag in [base_tag, dated_tag]]
BaseAndDated(repo_uri, base_tag, t) ==
    << Fmt(repo_uri) \o <<":">> \o base_tag,
       Fmt(repo_uri) \o <<":">> \o base_tag \o <<"-">> \o Strftime(t) >>

\* the base tag of get_image_uris_for_dlc, None for a device without pattern
DlcBaseTag(config) ==
    IF StrLower(config.device) = StrLower(GPU)
    THEN Fmt(config.pytorch_version) \o <<"-","t","g","i">> \o Fmt(config.version)
             \o <<"-">> \o StrLower(config.device)
             \o <<"-">> \o Fmt(config.python_version)
             \o <<"-">> \o Fmt(config.cuda_version)
             \o <<"-">> \o Fmt(config.os_version) \o <<"-","b","e","n","c","h","m","a","r","k","-","t","e","s","t","e","d">>
    ELSE IF StrLower(config.device) = StrLower(INF2)
    THEN Fmt(config.pytorch_version) \o <<"-","o","p","t","i","m","u","m">> \o Fmt(config.version)
             \o <<"-","n","e","u","r","o","n","x","-">> \o Fmt(config.python_version)
             \o <<"-">> \o Fmt(config.os_version) \o <<"-","b","e","n","c","h","m","a","r","k","-","t","e","s","t","e","d">>
    ELSE None

get_image_uris_for_dlc(config, e, t) ==
    IF DlcBaseTag(config) = None
    THEN [result |-> "AssertionError", uris |-> <<>>]
    ELSE [result |-> "ok",
          uris |-> BaseAndDated(e.DLC_ECR_REPO_URI, DlcBaseTag(config), t)]

\* mutant of JumpstartBaseTag: every device that is not GPU gets the tag
\* pattern without CUDA
JumpstartBaseTagAnyDevice(config) ==
    IF StrLower(config.device) = StrLower(GPU)
    THEN Fmt(config.pytorch_version) \o <<"-">> \o StrLower(config.framework)
             \o Fmt(config.version) \o <<"-","g","p","u","-">>
             \o Fmt(config.python_version)
             \o <<"-">> \o Fmt(config.cuda_version)
             \o <<"-">> \o Fmt(config.os_version)
    ELSE Fmt(config.pytorch_version) \o <<"-">> \o StrLower(config.framework)
             \o Fmt(config.version) \o <<"-">> \o StrLower(config.device)
             \o <<"-">> \o Fmt(config.python_version)
             \o <<"-">> \o Fmt(config.os_version)

\* the base tag of get_image_uris_for_jumpstart
JumpstartBaseTag(config) ==
    IF StrLower(config.device) = StrLower(GPU)
    THEN Fmt(config.pytorch_version) \o <<"-">> \o StrLower(config.framework)
             \o Fmt(config.version) \o <<"-","g","p","u","-">>
             \o Fmt(config.python_version)
             \o <<"-">> \o Fmt(config.cuda_version)
             \o <<"-">> \o Fmt(config.os_version)
    ELSE IF StrLower(config.device) = StrLower(CPU)
    THEN Fmt(config.pytorch_version) \o <<"-">> \o StrLower(config.framework)
             \o Fmt(config.version) \o <<"-","c","p","u","-">>
             \o Fmt(config.python_version)
             \o <<"-">> \o Fmt(config.os_version)
    ELSE None

\* repo_uri: JS_ECR_REPO_URI + framework, and for CPU "-cpu" after it
JumpstartRepoUri(config, e) ==
    IF StrLower(config.device) = StrLower(CPU)
    THEN e.JS_ECR_REPO_URI \o StrLower(config.framework)
             \o <<"-">> \o StrLower(config.device)
    ELSE e.JS_ECR_REPO_URI \o StrLower(config.framework)

get_image_uris_for_jumpstart(config, e, t) ==
    \* None + str raises before anything else
    IF e.JS_ECR_REPO_URI = None
    THEN [result |-> "TypeError", uris |-> <<>>]
    ELSE IF JumpstartBaseTag(config) = None
    THEN [result |-> "AssertionError", uris |-> <<>>]
    ELSE [result |-> "ok",
          uris |-> BaseAndDated(JumpstartRepoUri(config, e),
                                JumpstartBaseTag(config), t)]

(***************************************************************************)
(* DockerClient and Aws.  An image is known by its digest.  The registries *)
(* hold (account, repository, tag, image); the local engine holds          *)
(* (reference, image), the reference being the text url/repo:tag.          *)
(***************************************************************************)
ECR_TAG_DIGEST_PREFIX == <<"s","h","a","2","5","6">>

\* the value a name is bound to: the one element of a singleton
The(S) == CHOOSE x \in S : TRUE

\* \w of a str pattern: a letter, a digit or the underscore
WordChar(c) ==
    \/ \E i \in 1..26 : LowerChars[i] = c \/ UpperChars[i] = c
    \/ IsDigit(c)
    \/ c = "_"

\* [\d\w\.-]
UrlChar(c) == WordChar(c) \/ c \in {".", "-"}

\* [\w\d-]
RepoChar(c) == WordChar(c) \/ c = "-"

\* [\d\w\.:-]
TagChar(c) == WordChar(c) \/ c \in {".", ":", "-"}

\* the three starred classes of ECR_URI_REGEX
InClass(class, c) ==
    CASE class = "url"  -> UrlChar(c)
      [] class = "repo" -> RepoChar(c)
      [] class = "tag"  -> TagChar(c)

\* the first position of s, from position n on, whose character is not
\* in the class; Len(s) + 1 when there is none
FirstOutside(class, s, n) ==
    The({ IF n > Len(s) THEN n
          ELSE IF outside = {} THEN Len(s) + 1
          ELSE CHOOSE i \in outside : \A j \in outside : i <= j
          : outside \in {{i \in n..Len(s) : ~InClass(class, s[i])}} })

\* re.search(ECR_URI_REGEX, image_uri) with
\* ECR_URI_REGEX = ^([\d\w\.-]*)\/([\w\d-]*)[:@]([\d\w\.:-]*)$ .
\* No class holds the slash, the separators are in no class before them, so
\* the groups are fixed by where each class first stops.  $ matches at the
\* end and also just before a newline that ends the text.
ECR_URI_REGEX(s) ==
    LET Groups(text, slash, sep, end) ==
            IF /\ slash <= Len(text) /\ text[slash] = "/"
               /\ sep <= Len(text) /\ text[sep] \in {":", "@"}
               /\ end = Len(text) + 1
            THEN [match |-> TRUE,
                  groups |-> << SubSeq(text, 1, slash - 1),
                                SubSeq(text, slash + 1, sep - 1),
                                SubSeq(text, sep + 1, Len(text)) >>]
            ELSE [match |-> FALSE, groups |-> <<>>]
    IN  The({ The({ The({ Groups(text, slash, sep,
                                 FirstOutside("tag", text, sep + 1))
                          : sep \in {FirstOutside("repo", text, slash + 1)} })
                    : slash \in {FirstOutside("url", text, 1)} })
              : text \in {IF Len(s) > 0 /\ s[Len(s)] = "\n"
                          THEN SubSeq(s, 1, Len(s) - 1) ELSE s} })

\* mutant of split_ecr_image_uri: url is cut at its first dot
split_ecr_image_uri_short_url(uri) ==
    The({ IF ~m.match
          THEN [result |-> "AssertionError"]
          ELSE [result |-> "ok",
                aws_account_id |-> SplitDots(m.groups[1])[1],
                url_repo |-> m.groups[1] \o <<"/">> \o m.groups[2],
                url |-> SplitDots(m.groups[1])[1],
                repo |-> m.groups[2],
                tag |-> m.groups[3]]
          : m \in {ECR_URI_REGEX(uri)} })

split_ecr_image_uri(uri) ==
    The({ IF ~m.match
          THEN [result |-> "AssertionError"]
          ELSE [result |-> "ok",
                aws_account_id |-> SplitDots(m.groups[1])[1],
                url_repo |-> m.groups[1] \o <<"/">> \o m.groups[2],
                url |-> m.groups[1],
                repo |-> m.groups[2],
                tag |-> m.groups[3]]
          : m \in {ECR_URI_REGEX(uri)} })

\* no request left the client
NoRequest == [api |-> "none"]

\* mutant of ImageId: a digest is what starts with the prefix
ImageIdByPrefix(tag) ==
    IF Len(tag) >= Len(ECR_TAG_DIGEST_PREFIX)
       /\ SubSeq(tag, 1, Len(ECR_TAG_DIGEST_PREFIX)) = ECR_TAG_DIGEST_PREFIX
    THEN [imageDigest |-> tag]
    ELSE [imageTag |-> tag]

\* {"imageDigest": tag} if ECR_TAG_DIGEST_PREFIX in tag else {"imageTag": tag}
ImageId(tag) ==
    IF StrIn(ECR_TAG_DIGEST_PREFIX, tag)
    THEN [imageDigest |-> tag]
    ELSE [imageTag |-> tag]

\* the images of a repository that an image id names
Described(reg, account, repo, id) ==
    {i \in reg :
        /\ i.account = account
        /\ i.repo = repo
        /\ IF "imageDigest" \in DOMAIN id
           THEN i.image = id.imageDigest
           ELSE i.tag = id.imageTag}

\* mutant of does_ecr_image_exist: every exception is caught
does_ecr_image_exist_catching_all(uri, reg) ==
    The({ IF parts.result # "ok"
          THEN [result |-> "False", request |-> NoRequest]
          ELSE [result |-> IF Described(reg, parts.aws_account_id, parts.repo,
                                        ImageId(parts.tag)) # {}
                           THEN "True" ELSE "False",
                request |-> [api |-> "describe_images",
                             registryId |-> parts.aws_account_id,
                             repositoryName |-> parts.repo,
                             imageIds |-> <<ImageId(parts.tag)>>]]
          : parts \in {split_ecr_image_uri(uri)} })

\* Aws.does_ecr_image_exist: only ImageNotFoundException is caught
does_ecr_image_exist(uri, reg) ==
    The({ IF parts.result # "ok"
          THEN [result |-> "AssertionError", request |-> NoRequest]
          ELSE [result |-> IF Described(reg, parts.aws_account_id, parts.repo,
                                        ImageId(parts.tag)) # {}
                           THEN "True" ELSE "False",
                request |-> [api |-> "describe_images",
                             registryId |-> parts.aws_account_id,
                             repositoryName |-> parts.repo,
                             imageIds |-> <<ImageId(parts.tag)>>]]
          : parts \in {split_ecr_image_uri(uri)} })

\* Aws._get_ecr_scan_results: the first describe_image_scan_findings request
get_ecr_scan_results(uri, reg) ==
    The({ IF parts.result # "ok"
          THEN [result |-> "AssertionError", request |-> NoRequest]
          ELSE The({ [result |-> IF \E i \in reg : i.repo = parts.repo
                                     /\ (IF "imageDigest" \in DOMAIN request.imageId
                                         THEN i.image = request.imageId.imageDigest
                                         ELSE i.tag = request.imageId.imageTag)
                                 THEN "ok" ELSE "ImageNotFoundException",
                      request |-> request]
                     : request \in {[api |-> "describe_image_scan_findings",
                                     repositoryName |-> parts.repo,
                                     imageId |-> ImageId(parts.tag)]} })
          : parts \in {split_ecr_image_uri(uri)} })

\* max_pagination: int = 5
max_pagination == 5

\* the findings of the pages the loop of _get_ecr_scan_results asks for after
\* the i-th: while iteration < max_pagination and "nextToken" in response.
\* Every page but the last comes with a nextToken.
RECURSIVE NextPages(_, _, _)
NextPages(pages, i, iteration) ==
    IF iteration < max_pagination /\ i < Len(pages)
    THEN pages[i + 1] \o NextPages(pages, i + 1, iteration + 1)
    ELSE <<>>

\* Aws._get_ecr_scan_results: the enhanced findings of the first page and of
\* the pages the loop asks for
enhanced_findings(pages) == pages[1] \o NextPages(pages, 1, 0)

\* Aws.is_ecr_image_scan_pending: the status is PENDING, or there is no scan
\* (ScanNotFoundException is the one exception that is caught)
is_ecr_image_scan_pending(uri, reg, answer) ==
    The({ IF lookup.result # "ok" THEN lookup.result
          ELSE IF answer = "ScanNotFoundException" THEN "True"
          ELSE IF answer = "PENDING" THEN "True"
          ELSE "False"
          : lookup \in {get_ecr_scan_results(uri, reg)} })

\* Aws.get_image_scan_findings: the titles of the findings that have one of
\* the severities and are not excluded
get_image_scan_findings(pages, severities, excluded_ids) ==
    The({ [i \in 1..Len(kept) |-> kept[i].title]
          : kept \in {SelectSeq(enhanced_findings(pages),
                                LAMBDA finding :
                                   /\ finding.severity \in severities
                                   /\ finding.title \notin excluded_ids)} })

\* Aws.get_ecr_credentials: the authorization token of the URI's account
get_ecr_credentials(uri) ==
    The({ IF parts.result # "ok"
          THEN [result |-> "AssertionError", request |-> NoRequest]
          ELSE [result |-> "ok",
                request |-> [api |-> "get_authorization_token",
                             registryIds |-> <<parts.aws_account_id>>]]
          : parts \in {split_ecr_image_uri(uri)} })

\* the local reference url/repo:tag
Reference(parts) == parts.url_repo \o <<":">> \o parts.tag

\* the image a local reference names, None when there is none
LocalImage(loc, ref) ==
    IF \E i \in loc : i.ref = ref
    THEN (CHOOSE i \in loc : i.ref = ref).image
    ELSE None

\* the local engine after ref is made to name image
Named(loc, ref, image) ==
    {i \in loc : i.ref # ref} \cup {[ref |-> ref, image |-> image]}

\* the registries after image is pushed under (account, repo, tag)
Pushed(reg, parts, image) ==
    {i \in reg : ~(i.account = parts.aws_account_id /\ i.repo = parts.repo
                      /\ i.tag = parts.tag)}
        \cup {[account |-> parts.aws_account_id, repo |-> parts.repo,
                tag |-> parts.tag, image |-> image]}

\* DockerClient.pull: client.images.pull(parts.url_repo, tag=parts.tag)
DockerPull(uri, loc, reg) ==
    The({ IF parts.result # "ok"
          THEN [result |-> "AssertionError", local |-> loc]
          ELSE The({ IF found = {}
                     THEN [result |-> "NotFound", local |-> loc]
                     ELSE [result |-> "ok",
                           local |-> Named(loc, Reference(parts),
                                           (CHOOSE i \in found : TRUE).image)]
                     : found \in {Described(reg, parts.aws_account_id,
                                            parts.repo,
                                            [imageTag |-> parts.tag])} })
          : parts \in {split_ecr_image_uri(uri)} })

\* DockerClient.push: client.images.push(parts.url_repo, tag=parts.tag); a
\* push that returns has put the image in the registry
DockerPush(uri, loc, reg) ==
    The({ IF parts.result # "ok"
          THEN [result |-> "AssertionError", registry |-> reg]
          ELSE IF LocalImage(loc, Reference(parts)) = None
          THEN [result |-> "NotFound", registry |-> reg]
          ELSE [result |-> "ok",
                registry |-> Pushed(reg, parts,
                                    LocalImage(loc, Reference(parts)))]
          : parts \in {split_ecr_image_uri(uri)} })

\* DockerClient.tag: client.images.get(source_uri), then the target is split
\* and the image tagged
DockerTag(source_uri, target_uri, loc) ==
    The({ IF LocalImage(loc, source_uri) = None
          THEN [result |-> "ImageNotFound", local |-> loc]
          ELSE IF parts.result # "ok"
          THEN [result |-> "AssertionError", local |-> loc]
          ELSE [result |-> "ok",
                local |-> Named(loc, Reference(parts),
                                LocalImage(loc, source_uri))]
          : parts \in {split_ecr_image_uri(target_uri)} })

(***************************************************************************)
(* The entrypoint: ReleaseConfigs(), validate(), then the URI derivations  *)
(* the phases make for the loaded releases                                 *)
(***************************************************************************)
NoCall == [entry |-> 0, uri |-> None]

NoResult == [kind |-> "none", entry |-> 0, cands |-> <<>>]

NoUris == [fn |-> "none", entry |-> 0, result |-> "none", uris |-> <<>>,
           at |-> 0]

NoClientCall == [op |-> "none", result |-> "none"]

\* no DlcPipeline object was constructed yet: dlc_aws and last_refresh_time
\* are None
NoPipeline == [dlc_aws |-> "None", since_refresh |-> 0, status |-> "none"]

\* no phase was selected yet
NoPhase == [fn |-> "none", k |-> 0, at |-> "none"]

\* a text that was not built from parts
NotBuilt == [host |-> None, repo |-> None, sep |-> "", tag |-> None]

NoUriUnderTest == image_uri = None /\ built_from = NotBuilt

\* configs = ReleaseConfigs()
Load ==
    /\ pc = "start"
    /\ LET r == ReleaseConfigs_init(configs, env)
       IN  /\ loadResult' = r.result
           /\ permitted_combinations' = r.permitted_combinations
           /\ releases' = r.releases
           /\ pc' = IF r.result = "ok" THEN "loaded" ELSE "load_failed"
    /\ UNCHANGED <<env, head_commit, configs, validateResult, stagingCall,
                   releasedCall>>
    /\ UNCHANGED worldVars

\* mutant of Validate: the run goes on whatever validate() found
ValidateUnheeded ==
    /\ pc = "loaded"
    /\ \E legacy \in BOOLEAN :
          LET r == validate(releases, permitted_combinations, env, legacy)
          IN  /\ validateResult' = r
              /\ pc' = "validated"
    /\ UNCHANGED <<env, head_commit, configs, loadResult,
                   permitted_combinations, releases, stagingCall, releasedCall>>
    /\ UNCHANGED worldVars

\* configs.validate(), with either generation of the packaging library
Validate ==
    /\ pc = "loaded"
    /\ \E legacy \in BOOLEAN :
          LET r == validate(releases, permitted_combinations, env, legacy)
          IN  /\ validateResult' = r
              /\ pc' = IF r.kind = "ok" THEN "validated" ELSE "validate_failed"
    /\ UNCHANGED <<env, head_commit, configs, loadResult,
                   permitted_combinations, releases, stagingCall, releasedCall>>
    /\ UNCHANGED worldVars

\* config.get_image_uri_for_staging() for the k-th release
CallStaging(k) ==
    /\ pc = "validated"
    /\ stagingCall' =
          [entry |-> k,
           uri |-> get_image_uri_for_staging(releases[k], env, head_commit)]
    /\ UNCHANGED <<env, head_commit, configs, pc, loadResult,
                   permitted_combinations, releases, validateResult,
                   releasedCall>>
    /\ UNCHANGED worldVars

\* config.get_image_uri_for_released() for the k-th release
CallReleased(k) ==
    /\ pc = "validated"
    /\ releasedCall' =
          [entry |-> k,
           uri |-> get_image_uri_for_released(releases[k], env, head_commit)]
    /\ UNCHANGED <<env, head_commit, configs, pc, loadResult,
                   permitted_combinations, releases, validateResult,
                   stagingCall>>
    /\ UNCHANGED worldVars

\* config.get_image_uris_for_dlc() for the k-th release
CallDlc(k) ==
    /\ pc = "validated"
    /\ LET r == get_image_uris_for_dlc(releases[k], env, Clock[tick])
       IN  urisCall' = [fn |-> "dlc", entry |-> k, result |-> r.result,
                        uris |-> r.uris, at |-> tick]
    /\ UNCHANGED <<env, head_commit, configs, pc, loadResult,
                   permitted_combinations, releases, validateResult,
                   stagingCall, releasedCall, tick, clientVars, phaseVars>>

\* config.get_image_uris_for_jumpstart() for the k-th release
CallJumpstart(k) ==
    /\ pc = "validated"
    /\ LET r == get_image_uris_for_jumpstart(releases[k], env, Clock[tick])
       IN  urisCall' = [fn |-> "jumpstart", entry |-> k, result |-> r.result,
                        uris |-> r.uris, at |-> tick]
    /\ UNCHANGED <<env, head_commit, configs, pc, loadResult,
                   permitted_combinations, releases, validateResult,
                   stagingCall, releasedCall, tick, clientVars, phaseVars>>

\* time passes
Tick ==
    /\ tick < Len(Clock)
    /\ tick' = tick + 1
    /\ UNCHANGED <<env, head_commit, configs, pc, loadResult,
                   permitted_combinations, releases, validateResult,
                   stagingCall, releasedCall, urisCall, clientVars, phaseVars>>

Next ==
    \/ Load
    \/ Validate
    \/ \E k \in 1..Len(releases) : CallStaging(k)
    \/ \E k \in 1..Len(releases) : CallReleased(k)

\* DockerClient.split_ecr_image_uri(image_uri)
SplitUri ==
    /\ image_uri # None
    /\ clientCall' = [op |-> "split_ecr_image_uri",
                      result |-> split_ecr_image_uri(image_uri).result,
                      parts |-> split_ecr_image_uri(image_uri)]
    /\ UNCHANGED <<env, head_commit, configs, pc, loadResult,
                   permitted_combinations, releases, validateResult,
                   stagingCall, releasedCall, tick, urisCall,
                   image_uri, built_from, registry, local, phaseVars>>

\* aws.does_ecr_image_exist(image_uri)
CheckExists ==
    /\ image_uri # None
    /\ LET r == does_ecr_image_exist(image_uri, registry)
       IN  clientCall' = [op |-> "does_ecr_image_exist",
                          result |-> r.result, request |-> r.request]
    /\ UNCHANGED <<env, head_commit, configs, pc, loadResult,
                   permitted_combinations, releases, validateResult,
                   stagingCall, releasedCall, tick, urisCall,
                   image_uri, built_from, registry, local, phaseVars>>

\* aws._get_ecr_scan_results(image_uri)
LookupScan ==
    /\ image_uri # None
    /\ LET r == get_ecr_scan_results(image_uri, registry)
       IN  clientCall' = [op |-> "_get_ecr_scan_results",
                          result |-> r.result, request |-> r.request]
    /\ UNCHANGED <<env, head_commit, configs, pc, loadResult,
                   permitted_combinations, releases, validateResult,
                   stagingCall, releasedCall, tick, urisCall,
                   image_uri, built_from, registry, local, phaseVars>>

\* aws.get_ecr_credentials(image_uri)
FetchCredentials ==
    /\ image_uri # None
    /\ LET r == get_ecr_credentials(image_uri)
       IN  clientCall' = [op |-> "get_ecr_credentials",
                          result |-> r.result, request |-> r.request]
    /\ UNCHANGED <<env, head_commit, configs, pc, loadResult,
                   permitted_combinations, releases, validateResult,
                   stagingCall, releasedCall, tick, urisCall,
                   image_uri, built_from, registry, local, phaseVars>>

\* docker_client.pull(image_uri)
Pull ==
    /\ image_uri # None
    /\ LET r == DockerPull(image_uri, local, registry)
       IN  /\ clientCall' = [op |-> "pull", result |-> r.result]
           /\ local' = r.local
    /\ UNCHANGED <<env, head_commit, configs, pc, loadResult,
                   permitted_combinations, releases, validateResult,
                   stagingCall, releasedCall, tick, urisCall,
                   image_uri, built_from, registry, phaseVars>>

\* docker_client.push(image_uri)
Push ==
    /\ image_uri # None
    /\ LET r == DockerPush(image_uri, local, registry)
       IN  /\ clientCall' = [op |-> "push", result |-> r.result]
           /\ registry' = r.registry
    /\ UNCHANGED <<env, head_commit, configs, pc, loadResult,
                   permitted_combinations, releases, validateResult,
                   stagingCall, releasedCall, tick, urisCall,
                   image_uri, built_from, local, phaseVars>>

\* docker_client.tag(source, image_uri) for an image the engine holds
TagTo ==
    /\ image_uri # None
    /\ \E i \in local :
          LET r == DockerTag(i.ref, image_uri, local)
          IN  /\ clientCall' = [op |-> "tag", result |-> r.result]
              /\ local' = r.local
    /\ UNCHANGED <<env, head_commit, configs, pc, loadResult,
                   permitted_combinations, releases, validateResult,
                   stagingCall, releasedCall, tick, urisCall,
                   image_uri, built_from, registry, phaseVars>>

\* the clients' calls that parse a URI
NextParse ==
    \/ SplitUri
    \/ CheckExists
    \/ LookupScan
    \/ FetchCredentials
    \/ Pull
    \/ Push
    \/ TagTo

\* the tag derivations of every audience, as time passes
NextUris ==
    \/ Load
    \/ Validate
    \/ \E k \in 1..Len(releases) : CallStaging(k)
    \/ \E k \in 1..Len(releases) : CallDlc(k)
    \/ \E k \in 1..Len(releases) : CallJumpstart(k)
    \/ Tick

(***************************************************************************)
(* The phases.  A call the program makes is a record: the operation, the   *)
(* function that makes it, the entry it is made for, the URI (or name) it  *)
(* is about, one more argument, and how it ended.  A block of calls runs   *)
(* until one of them fails: by what the registries and the engine hold, or *)
(* for a reason outside the program (failAt names that call).               *)
(***************************************************************************)
Op(op, fn, k, uri, arg) ==
    [op |-> op, fn |-> fn, entry |-> k, uri |-> uri, arg |-> arg,
     result |-> "none"]

\* the calls that leave the process and can fail for outside reasons
ExternalOps ==
    {"does_ecr_image_exist", "get_ecr_credentials", "login", "prune_all",
     "pull", "push", "tag", "clone_from", "checkout", "copytree", "build",
     "assume_role", "set_parameter", "start_pipeline_execution",
     "get_pipeline_status", "pytest", "is_ecr_image_scan_pending",
     "get_image_scan_findings"}

FailurePoints(ops) ==
    {0} \cup {i \in 1..Len(ops) : ops[i].op \in ExternalOps}

World ==
    [registry |-> registry, local |-> local, parameters |-> parameters,
     executions |-> executions, log |-> log, result |-> "ok"]

\* one call, on the registries, the engine, the parameter store and the
\* pipelines
Apply(w, o) ==
    CASE o.op = "does_ecr_image_exist" ->
            [w EXCEPT !.result = does_ecr_image_exist(o.uri, w.registry).result]
      [] o.op = "get_ecr_credentials" ->
            [w EXCEPT !.result = get_ecr_credentials(o.uri).result]
      [] o.op = "pull" ->
            The({ [w EXCEPT !.result = r.result, !.local = r.local]
                  : r \in {DockerPull(o.uri, w.local, w.registry)} })
      [] o.op = "push" ->
            The({ [w EXCEPT !.result = r.result, !.registry = r.registry]
                  : r \in {DockerPush(o.uri, w.local, w.registry)} })
      [] o.op = "tag" ->
            The({ [w EXCEPT !.result = r.result, !.local = r.local]
                  : r \in {DockerTag(o.arg, o.uri, w.local)} })
      [] o.op = "prune_all" ->
            [w EXCEPT !.result = "ok", !.local = {}]
      [] o.op = "build" ->
            [w EXCEPT !.result = "ok", !.local = Named(w.local, o.uri, o.arg)]
      [] o.op = "set_parameter" ->
            [w EXCEPT !.result = "ok",
                      !.parameters = {q \in w.parameters : q.name # o.uri}
                                       \cup {[name |-> o.uri, value |-> o.arg]}]
      [] o.op = "start_pipeline_execution" ->
            [w EXCEPT !.result = "ok",
                      !.executions = Append(w.executions, o.uri)]
      [] o.op = "is_ecr_image_scan_pending" ->
            [w EXCEPT !.result =
                         is_ecr_image_scan_pending(o.uri, w.registry, o.arg)]
      [] o.op = "get_image_scan_findings" ->
            [w EXCEPT !.result = get_ecr_scan_results(o.uri, w.registry).result]
      [] o.op = "raise" ->
            [w EXCEPT !.result = o.arg]
      [] OTHER ->
            [w EXCEPT !.result = "ok"]

Succeeded(result) == result \in {"ok", "True", "False"}

\* mutant of RunOps: the block goes on after a call that failed
RECURSIVE RunOpsPastFailure(_, _, _)
RunOpsPastFailure(w, ops, failAt) ==
    IF ops = <<>> THEN w
    ELSE The({ RunOpsPastFailure(logged, Tail(ops),
                                 IF failAt = 0 THEN 0 ELSE failAt - 1)
               : logged \in
                   { [a EXCEPT !.log = Append(w.log, [Head(ops) EXCEPT
                                                        !.result = a.result])]
                     : a \in {IF failAt = 1
                              THEN [w EXCEPT !.result = "ExternalError"]
                              ELSE Apply(w, Head(ops))} } })

\* the calls of a block in order, each logged with how it ended; the block
\* stops at the first call that fails
RECURSIVE RunOps(_, _, _)
RunOps(w, ops, failAt) ==
    IF ops = <<>> THEN w
    ELSE The({ IF Succeeded(logged.result)
               THEN RunOps(logged, Tail(ops),
                           IF failAt = 0 THEN 0 ELSE failAt - 1)
               ELSE logged
               : logged \in
                   { [a EXCEPT !.log = Append(w.log, [Head(ops) EXCEPT
                                                        !.result = a.result])]
                     : a \in {IF failAt = 1
                              THEN [w EXCEPT !.result = "ExternalError"]
                              ELSE Apply(w, Head(ops))} } })

\* the image a build of the k-th entry makes in the given run
BuiltImage(k, r) == <<"s","h","a","2","5","6",":">> \o TwoDigits(r) \o TwoDigits(k)

IsScript(name) == script = name

At(fn, label) == pc = "running" /\ phase.fn = fn /\ phase.at = label

\* the loops go on with the next entry, or end
NextEntry ==
    IF phase.k < Len(releases)
    THEN [phase EXCEPT !.k = phase.k + 1, !.at = "check"]
    ELSE [phase EXCEPT !.k = phase.k + 1, !.at = "done"]

Failed == [phase EXCEPT !.at = "failed"]

\* the block ran on the world; then the phase stands where `then` says
Performs(r, then) ==
    /\ registry' = r.registry
    /\ local' = r.local
    /\ parameters' = r.parameters
    /\ executions' = r.executions
    /\ log' = r.log
    /\ phase' = IF Succeeded(r.result) THEN then ELSE Failed

\* the steps of the current entry that are complete when the block ends well
Completes(r, steps) ==
    completed' = IF Succeeded(r.result)
                 THEN completed \cup {[entry |-> phase.k, step |-> s,
                                       run |-> run] : s \in steps}
                 ELSE completed

ProgramUnchanged ==
    UNCHANGED <<env, head_commit, configs, pc, loadResult,
                permitted_combinations, releases, validateResult,
                stagingCall, releasedCall, tick, image_uri, built_from,
                clientCall, script, run, pipeline, execution, recent,
                since_start>>

Modes == {<<"P","R">>, <<"B","U","I","L","D">>, <<"T","E","S","T">>, <<"R","E","L","E","A","S","E">>}

\* mutant of Dispatch: the mode is told whatever its case
DispatchIgnoringCase ==
    /\ pc = "validated"
    /\ phase = NoPhase
    /\ pc' = "running"
    /\ phase' = IF StrUpper(env.MODE) \in {<<"P","R">>, <<"B","U","I","L","D">>}
                THEN [fn |-> "build", k |-> 1,
                      at |-> IF releases = <<>> THEN "done" ELSE "check"]
                ELSE IF StrUpper(env.MODE) = <<"T","E","S","T">>
                THEN [fn |-> "test", k |-> 1,
                      at |-> IF releases = <<>> THEN "done" ELSE "check"]
                ELSE IF StrUpper(env.MODE) = <<"R","E","L","E","A","S","E">>
                THEN [fn |-> "release", k |-> 1,
                      at |-> IF releases = <<>> THEN "done" ELSE "check"]
                ELSE [fn |-> "none", k |-> 0, at |-> "ValueError"]
    /\ UNCHANGED <<env, head_commit, configs, loadResult,
                   permitted_combinations, releases, validateResult,
                   stagingCall, releasedCall, tick, urisCall, clientVars,
                   script, log, parameters, executions, completed, run,
                   pipeline, execution, recent, since_start>>

\* mutant of Dispatch: PR runs the tests at once
DispatchPrToTest ==
    /\ pc = "validated"
    /\ phase = NoPhase
    /\ pc' = "running"
    /\ phase' = IF env.MODE = <<"B","U","I","L","D">>
                THEN [fn |-> "build", k |-> 1,
                      at |-> IF releases = <<>> THEN "done" ELSE "check"]
                ELSE IF env.MODE \in {<<"P","R">>, <<"T","E","S","T">>}
                THEN [fn |-> "test", k |-> 1,
                      at |-> IF releases = <<>> THEN "done" ELSE "check"]
                ELSE IF env.MODE = <<"R","E","L","E","A","S","E">>
                THEN [fn |-> "release", k |-> 1,
                      at |-> IF releases = <<>> THEN "done" ELSE "check"]
                ELSE [fn |-> "none", k |-> 0, at |-> "ValueError"]
    /\ UNCHANGED <<env, head_commit, configs, loadResult,
                   permitted_combinations, releases, validateResult,
                   stagingCall, releasedCall, tick, urisCall, clientVars,
                   script, log, parameters, executions, completed, run,
                   pipeline, execution, recent, since_start>>

\* the entrypoint after validate(): the phase MODE names, or ValueError
Dispatch ==
    /\ pc = "validated"
    /\ phase = NoPhase
    /\ pc' = "running"
    /\ phase' = IF env.MODE \in {<<"P","R">>, <<"B","U","I","L","D">>}
                THEN [fn |-> "build", k |-> 1,
                      at |-> IF releases = <<>> THEN "done" ELSE "check"]
                ELSE IF env.MODE = <<"T","E","S","T">>
                THEN [fn |-> "test", k |-> 1,
                      at |-> IF releases = <<>> THEN "done" ELSE "check"]
                ELSE IF env.MODE = <<"R","E","L","E","A","S","E">>
                THEN [fn |-> "release", k |-> 1,
                      at |-> IF releases = <<>> THEN "done" ELSE "check"]
                ELSE [fn |-> "none", k |-> 0, at |-> "ValueError"]
    /\ UNCHANGED <<env, head_commit, configs, loadResult,
                   permitted_combinations, releases, validateResult,
                   stagingCall, releasedCall, tick, urisCall, clientVars,
                   script, log, parameters, executions, completed, run,
                   pipeline, execution, recent, since_start>>

(***************************************************************************)
(* build(configs): one entry of the loop                                   *)
(***************************************************************************)
StagingUri(k) == get_image_uri_for_staging(releases[k], env, head_commit)

ReleasedUri(k) == get_image_uri_for_released(releases[k], env, head_commit)

\* mutant of BuildCheck: the entry is built whatever the check answers
BuildCheckNeverSkips ==
    /\ At("build", "check")
    /\ \E ops \in {<<Op("does_ecr_image_exist", "build", phase.k,
                         StagingUri(phase.k), None)>>} :
       \E failAt \in FailurePoints(ops) :
       \E r \in {RunOps(World, ops, failAt)} :
          Performs(r, [phase EXCEPT !.at = "image"])
    /\ UNCHANGED <<urisCall, completed>>
    /\ ProgramUnchanged

\* image_uri = config.get_image_uri_for_staging();
\* if aws.does_ecr_image_exist(image_uri): continue
BuildCheck ==
    /\ At("build", "check")
    /\ \E ops \in {<<Op("does_ecr_image_exist", "build", phase.k,
                         StagingUri(phase.k), None)>>} :
       \E failAt \in FailurePoints(ops) :
       \E r \in {RunOps(World, ops, failAt)} :
          Performs(r, IF r.result = "True" THEN NextEntry
                      ELSE [phase EXCEPT !.at = "image"])
    /\ UNCHANGED <<urisCall, completed>>
    /\ ProgramUnchanged

\* tgi.py checks the TGI sources out for a GPU release only, tgi-llamacpp.py
\* for every release
NeedsCheckout(config) ==
    IF IsScript("tgi") THEN StrLower(config.device) = StrLower(GPU) ELSE TRUE

CheckoutOps(k) ==
    << Op("rmtree", "build", k, None, None),
       Op("clone_from", "build", k, None, None),
       Op("checkout", "build", k, <<"v">> \o Fmt(releases[k].version), None),
       Op("copytree", "build", k, None, None) >>

\* the source checkout, then docker_client.build(image_uri, ...)
BuildImage ==
    /\ At("build", "image")
    /\ \E ops \in {(IF NeedsCheckout(releases[phase.k])
                     THEN CheckoutOps(phase.k) ELSE <<>>)
                    \o <<Op("build", "build", phase.k, StagingUri(phase.k),
                            BuiltImage(phase.k, run))>>} :
       \E failAt \in FailurePoints(ops) :
       \E r \in {RunOps(World, ops, failAt)} :
          Performs(r, [phase EXCEPT !.at = "push"])
    /\ UNCHANGED <<urisCall, completed>>
    /\ ProgramUnchanged

\* aws.get_ecr_credentials, docker_client.login, docker_client.push
BuildPush ==
    /\ At("build", "push")
    /\ \E uri \in {StagingUri(phase.k)} :
       \E ops \in {<< Op("get_ecr_credentials", "build", phase.k, uri, None),
                      Op("login", "build", phase.k, uri, None),
                      Op("push", "build", phase.k, uri, None) >>} :
       \E failAt \in FailurePoints(ops) :
       \E r \in {RunOps(World, ops, failAt)} :
          Performs(r, NextEntry) /\ Completes(r, {"build"})
    /\ UNCHANGED urisCall
    /\ ProgramUnchanged

(***************************************************************************)
(* release(configs): one entry of the loop.  tgi.py publishes through the  *)
(* DLC pipeline and marks the release last; tgi-llamacpp.py marks the      *)
(* release and then publishes to JumpStart.                                *)
(***************************************************************************)
DLC_PIPELINE_NAME_BY_DEVICE ==
    (StrLower(GPU) :> "HFTgiReleasePipeline-huggingface-pytorch-tgi-inference-gpu")
    @@ (StrLower(INF2) :> "HFTgiReleasePipeline-huggingface-pytorch-tgi-inference-neuronx")

\* mutant of ReleaseCheck: the entry is released whatever the check answers
ReleaseCheckNeverSkips ==
    /\ At("release", "check")
    /\ \E ops \in {<<Op("does_ecr_image_exist", "release", phase.k,
                         ReleasedUri(phase.k), None)>>} :
       \E failAt \in FailurePoints(ops) :
       \E r \in {RunOps(World, ops, failAt)} :
          Performs(r, [phase EXCEPT !.at = "pull"])
    /\ UNCHANGED <<urisCall, completed>>
    /\ ProgramUnchanged

\* released_image_uri = config.get_image_uri_for_released();
\* if aws.does_ecr_image_exist(released_image_uri): continue
ReleaseCheck ==
    /\ At("release", "check")
    /\ \E ops \in {<<Op("does_ecr_image_exist", "release", phase.k,
                         ReleasedUri(phase.k), None)>>} :
       \E failAt \in FailurePoints(ops) :
       \E r \in {RunOps(World, ops, failAt)} :
          Performs(r, IF r.result = "True" THEN NextEntry
                      ELSE [phase EXCEPT !.at = "pull"])
    /\ UNCHANGED <<urisCall, completed>>
    /\ ProgramUnchanged

\* mutant of ReleasePull: the local images are pruned after the pull
ReleasePullThenPrune ==
    /\ At("release", "pull")
    /\ \E uri \in {StagingUri(phase.k)} :
       \E ops \in {<< Op("get_ecr_credentials", "release", phase.k, uri, None),
                      Op("login", "release", phase.k, uri, None),
                      Op("pull", "release", phase.k, uri, None),
                      Op("prune_all", "release", phase.k, None, None) >>} :
       \E failAt \in FailurePoints(ops) :
       \E r \in {RunOps(World, ops, failAt)} :
          Performs(r, [phase EXCEPT !.at = IF IsScript("tgi")
                                           THEN "stage_image"
                                           ELSE "mark_released"])
    /\ UNCHANGED <<urisCall, completed>>
    /\ ProgramUnchanged

\* credentials, login, prune_all, pull of the staging image
ReleasePull ==
    /\ At("release", "pull")
    /\ \E uri \in {StagingUri(phase.k)} :
       \E ops \in {<< Op("get_ecr_credentials", "release", phase.k, uri, None),
                      Op("login", "release", phase.k, uri, None),
                      Op("prune_all", "release", phase.k, None, None),
                      Op("pull", "release", phase.k, uri, None) >>} :
       \E failAt \in FailurePoints(ops) :
       \E r \in {RunOps(World, ops, failAt)} :
          Performs(r, [phase EXCEPT !.at = IF IsScript("tgi")
                                           THEN "stage_image"
                                           ELSE "mark_released"])
    /\ UNCHANGED <<urisCall, completed>>
    /\ ProgramUnchanged

\* mutant of TagAndPushEach: every URI is pushed and then tagged
RECURSIVE PushAndTagEach(_, _, _, _)
PushAndTagEach(fn, k, staged, uris) ==
    IF uris = <<>> THEN <<>>
    ELSE << Op("push", fn, k, Head(uris), None),
            Op("tag", fn, k, Head(uris), staged) >>
         \o PushAndTagEach(fn, k, staged, Tail(uris))

\* for uri in uris: docker_client.tag(staged_image_uri, uri);
\*                  docker_client.push(uri)
RECURSIVE TagAndPushEach(_, _, _, _)
TagAndPushEach(fn, k, staged, uris) ==
    IF uris = <<>> THEN <<>>
    ELSE << Op("tag", fn, k, Head(uris), staged),
            Op("push", fn, k, Head(uris), None) >>
         \o TagAndPushEach(fn, k, staged, Tail(uris))

\* credentials and login for the first URI, then every URI tagged and pushed
PublishOps(fn, k, staged, derived) ==
    IF derived.result # "ok"
    THEN <<Op("raise", fn, k, None, derived.result)>>
    ELSE << Op("get_ecr_credentials", fn, k, derived.uris[1], None),
            Op("login", fn, k, derived.uris[1], None) >>
         \o TagAndPushEach(fn, k, staged, derived.uris)

\* pipeline = DlcPipeline(aws, docker_client); pipeline.stage_image(config)
StageImage ==
    /\ At("release", "stage_image")
    /\ IsScript("tgi")
    /\ \E derived \in {get_image_uris_for_dlc(releases[phase.k], env,
                                               Clock[tick])} :
       \E ops \in {<<Op("assume_role", "DlcPipeline", phase.k, None, None)>>
                    \o PublishOps("stage_image", phase.k, StagingUri(phase.k),
                                  derived)
                    \o <<Op("return", "stage_image", phase.k, None, None)>>} :
       \E failAt \in FailurePoints(ops) :
       \E r \in {RunOps(World, ops, failAt)} :
          /\ Performs(r, [phase EXCEPT !.at = "set_parameters"])
          /\ Completes(r, {"stage_image"})
          /\ urisCall' =
                IF \E i \in 1..Len(r.log) : r.log[i].op = "assume_role"
                      /\ r.log[i].entry = phase.k
                      /\ r.log[i].result = "ok"
                THEN [fn |-> "dlc", entry |-> phase.k,
                      result |-> derived.result,
                      uris |-> derived.uris, at |-> tick]
                ELSE urisCall
    /\ ProgramUnchanged

\* mutant of ParametersOf: every device that is not GPU gets the neuronx
\* parameters
ParametersOfAnyDevice(config) ==
    IF StrLower(config.device) = StrLower(GPU)
    THEN << <<"/huggingface-pytorch-tgi/gpu/tgi-version", config.version>>,
            <<"/huggingface-pytorch-tgi/gpu/os-version", config.os_version>>,
            <<"/huggingface-pytorch-tgi/gpu/cuda-version", config.cuda_version>>,
            <<"/huggingface-pytorch-tgi/gpu/python-version", config.python_version>>,
            <<"/huggingface-pytorch-tgi/gpu/pytorch-version", config.pytorch_version>> >>
    ELSE << <<"/huggingface-pytorch-tgi/neuronx/tgi-optimum-version", config.version>>,
            <<"/huggingface-pytorch-tgi/neuronx/os-version", config.os_version>>,
            <<"/huggingface-pytorch-tgi/neuronx/python-version", config.python_version>>,
            <<"/huggingface-pytorch-tgi/neuronx/pytorch-version", config.pytorch_version>> >>

\* the parameters of set_parameters, by device
ParametersOf(config) ==
    IF StrLower(config.device) = StrLower(GPU)
    THEN << <<"/huggingface-pytorch-tgi/gpu/tgi-version", config.version>>,
            <<"/huggingface-pytorch-tgi/gpu/os-version", config.os_version>>,
            <<"/huggingface-pytorch-tgi/gpu/cuda-version", config.cuda_version>>,
            <<"/huggingface-pytorch-tgi/gpu/python-version", config.python_version>>,
            <<"/huggingface-pytorch-tgi/gpu/pytorch-version", config.pytorch_version>> >>
    ELSE IF StrLower(config.device) = StrLower(INF2)
    THEN << <<"/huggingface-pytorch-tgi/neuronx/tgi-optimum-version", config.version>>,
            <<"/huggingface-pytorch-tgi/neuronx/os-version", config.os_version>>,
            <<"/huggingface-pytorch-tgi/neuronx/python-version", config.python_version>>,
            <<"/huggingface-pytorch-tgi/neuronx/pytorch-version", config.pytorch_version>> >>
    ELSE <<>>

\* pipeline.set_parameters(config)
SetParameters ==
    /\ At("release", "set_parameters")
    /\ \E ps \in {ParametersOf(releases[phase.k])} :
       \E ops \in {IF ps = <<>>
                    THEN <<Op("raise", "set_parameters", phase.k, None,
                              "AssertionError")>>
                    ELSE [i \in 1..Len(ps) |->
                             Op("set_parameter", "set_parameters", phase.k,
                                ps[i][1], ps[i][2])]
                         \o <<Op("return", "set_parameters", phase.k, None,
                                 None)>>} :
       \E failAt \in FailurePoints(ops) :
       \E r \in {RunOps(World, ops, failAt)} :
          /\ Performs(r, [phase EXCEPT !.at = "start_pipeline"])
          /\ Completes(r, {"set_parameters"})
    /\ UNCHANGED urisCall
    /\ ProgramUnchanged

\* os.getenv(name, "").lower() == "true"
Enabled(value) == StrLower(IF value = None THEN <<>> ELSE value) = <<"t","r","u","e">>

\* Aws.get_pipeline_status: the status of the execution, normalised
PipelineStatus(status) ==
    IF status = "InProgress" THEN "IN_PROGRESS"
    ELSE IF status = "Succeeded" THEN "SUCCESSFUL"
    ELSE "UNSUCCESSFUL"

\* what the pipeline answers to the polls of one execution, until it has ended
PollOutcomes ==
    { <<"Succeeded">>, <<"InProgress", "Succeeded">>, <<"Failed">>,
      <<"InProgress", "Stopped">> }

\* the loop of start_pipeline: sleep, refresh, poll, while IN_PROGRESS
RECURSIVE PollOps(_, _, _)
PollOps(k, name, statuses) ==
    IF statuses = <<>> THEN <<>>
    ELSE << Op("sleep", "start_pipeline", k, None, None),
            Op("_refresh_credentials", "start_pipeline", k, None, None),
            Op("get_pipeline_status", "start_pipeline", k, name,
               PipelineStatus(Head(statuses))) >>
         \o (IF PipelineStatus(Head(statuses)) = "IN_PROGRESS"
             THEN PollOps(k, name, Tail(statuses))
             ELSE IF PipelineStatus(Head(statuses)) = "SUCCESSFUL"
             THEN <<>>
             ELSE <<Op("raise", "start_pipeline", k, None, "AssertionError")>>)

\* mutant of StartPipelineOps: the pipeline is started whatever the switch
\* says
StartPipelineOpsAlways(config, k, e, statuses) ==
    IF StrLower(config.device) \notin DOMAIN DLC_PIPELINE_NAME_BY_DEVICE
    THEN <<Op("raise", "start_pipeline", k, None, "AssertionError")>>
    ELSE LET name == DLC_PIPELINE_NAME_BY_DEVICE[StrLower(config.device)]
         IN  <<Op("start_pipeline_execution", "start_pipeline", k, name, None)>>
             \o (IF Enabled(e.DLC_ENABLE_PIPELINE_STATUS_CHECK)
                 THEN PollOps(k, name, statuses) ELSE <<>>)

\* DlcPipeline.start_pipeline
StartPipelineOps(config, k, e, statuses) ==
    IF ~Enabled(e.DLC_ENABLE_PIPELINE_EXECUTION) THEN <<>>
    ELSE IF StrLower(config.device) \notin DOMAIN DLC_PIPELINE_NAME_BY_DEVICE
    THEN <<Op("raise", "start_pipeline", k, None, "AssertionError")>>
    ELSE LET name == DLC_PIPELINE_NAME_BY_DEVICE[StrLower(config.device)]
         IN  <<Op("start_pipeline_execution", "start_pipeline", k, name, None)>>
             \o (IF Enabled(e.DLC_ENABLE_PIPELINE_STATUS_CHECK)
                 THEN PollOps(k, name, statuses) ELSE <<>>)

\* pipeline.start_pipeline(config)
StartPipeline ==
    /\ At("release", "start_pipeline")
    /\ \E statuses \in PollOutcomes :
       \E ops \in {StartPipelineOps(releases[phase.k], phase.k, env, statuses)
                    \o <<Op("return", "start_pipeline", phase.k, None, None)>>} :
       \E failAt \in FailurePoints(ops) :
       \E r \in {RunOps(World, ops, failAt)} :
          /\ Performs(r, [phase EXCEPT !.at = "mark_released"])
          /\ Completes(r, {"start_pipeline"})
    /\ UNCHANGED urisCall
    /\ ProgramUnchanged

\* the staging image tagged as released and pushed; tgi.py fetches the
\* credentials again, tgi-llamacpp.py logs in with the ones it has
MarkReleased ==
    /\ At("release", "mark_released")
    /\ \E staged \in {StagingUri(phase.k)} :
       \E released \in {ReleasedUri(phase.k)} :
       \E ops \in {(IF IsScript("tgi")
                     THEN <<Op("get_ecr_credentials", "release", phase.k,
                               staged, None)>>
                     ELSE <<>>)
                    \o << Op("login", "release", phase.k, staged, None),
                          Op("tag", "release", phase.k, released, staged),
                          Op("push", "release", phase.k, released, None) >>} :
       \E failAt \in FailurePoints(ops) :
       \E r \in {RunOps(World, ops, failAt)} :
          IF IsScript("tgi")
          THEN /\ Performs(r, NextEntry)
               /\ Completes(r, {"released", "entry"})
          ELSE /\ Performs(r, [phase EXCEPT !.at = "jumpstart"])
               /\ Completes(r, {"released"})
    /\ UNCHANGED urisCall
    /\ ProgramUnchanged

\* js_uris = config.get_image_uris_for_jumpstart(), then the credentials and
\* login for the first and every URI tagged and pushed
PublishJumpstart ==
    /\ At("release", "jumpstart")
    /\ \E derived \in {get_image_uris_for_jumpstart(releases[phase.k], env,
                                                     Clock[tick])} :
       \E ops \in {PublishOps("release", phase.k, StagingUri(phase.k),
                               derived)} :
       \E failAt \in FailurePoints(ops) :
       \E r \in {RunOps(World, ops, failAt)} :
          /\ Performs(r, NextEntry)
          /\ Completes(r, {"jumpstart", "entry"})
          /\ urisCall' = [fn |-> "jumpstart", entry |-> phase.k,
                          result |-> derived.result, uris |-> derived.uris,
                          at |-> tick]
    /\ ProgramUnchanged

(***************************************************************************)
(* test(configs): one entry of the loop.  tgi.py waits for the scan of the *)
(* staging image and looks at its findings; tgi-llamacpp.py runs the test  *)
(* harness only.                                                           *)
(***************************************************************************)
ECR_SCAN_TIMEOUT_IN_SECONDS == 900

\* what a poll of the scan status can take: a while, or by itself longer
\* than the timeout (a poll that ends the wait is a quick one)
ScanCallSeconds == 300

ScanSeconds == {ScanCallSeconds, 4 * ScanCallSeconds}

\* the exit codes of the test harness
ExitCodes == {0, 1}

\* what the registry answers about the scan of an image: there is none, then
\* it is pending, then it has ended
ScanAnswers == {"ScanNotFoundException", "PENDING", "COMPLETE"}

ScanAnswersAfter(lg, k) ==
    IF lg # <<>> /\ lg[Len(lg)].op = "is_ecr_image_scan_pending"
       /\ lg[Len(lg)].entry = k /\ lg[Len(lg)].arg = "PENDING"
    THEN ScanAnswers \ {"ScanNotFoundException"}
    ELSE ScanAnswers

\* configs.get("ignore_vulnerabilities", [])
ignore_vulnerabilities(cfg) ==
    IF "ignore_vulnerabilities" \in DOMAIN cfg THEN cfg.ignore_vulnerabilities
    ELSE <<>>

TestUnchanged ==
    UNCHANGED <<env, head_commit, configs, pc, loadResult,
                permitted_combinations, releases, validateResult,
                stagingCall, releasedCall, tick, urisCall, image_uri,
                built_from, clientCall, script, run, pipeline, execution,
                recent>>

\* mutant of TestHarness: the exit code of the harness is not asserted
TestHarnessUnasserted ==
    /\ At("test", "check")
    /\ \E code \in ExitCodes :
       \E ops \in {<< Op("assume_role", "test", phase.k, None, None),
                      Op("pytest", "test", phase.k, StagingUri(phase.k),
                         code) >>} :
       \E failAt \in FailurePoints(ops) :
       \E r \in {RunOps(World, ops, failAt)} :
          IF IsScript("tgi")
          THEN /\ Performs(r, [phase EXCEPT !.at = "scan"])
               /\ UNCHANGED completed
          ELSE /\ Performs(r, NextEntry)
               /\ Completes(r, {"test"})
    /\ since_start' = IF IsScript("tgi") THEN 0 ELSE since_start
    /\ TestUnchanged

\* the session of the test role, the test harness in a subprocess, and
\* assert process.returncode == 0; tgi.py then reads the clock:
\* start_time = time.time()
TestHarness ==
    /\ At("test", "check")
    /\ \E code \in ExitCodes :
       \E ops \in {<< Op("assume_role", "test", phase.k, None, None),
                      Op("pytest", "test", phase.k, StagingUri(phase.k),
                         code) >>
                    \o (IF code # 0
                        THEN <<Op("raise", "test", phase.k, None,
                                  "AssertionError")>>
                        ELSE <<>>)} :
       \E failAt \in FailurePoints(ops) :
       \E r \in {RunOps(World, ops, failAt)} :
          IF IsScript("tgi")
          THEN /\ Performs(r, [phase EXCEPT !.at = "scan"])
               /\ UNCHANGED completed
          ELSE /\ Performs(r, NextEntry)
               /\ Completes(r, {"test"})
    /\ since_start' = IF IsScript("tgi") THEN 0 ELSE since_start
    /\ TestUnchanged

\* mutant of TestScan: the time waited is not asserted
TestScanWithoutTimeout ==
    /\ At("test", "scan")
    /\ IsScript("tgi")
    /\ \E answer \in ScanAnswersAfter(log, phase.k) :
       \E uri \in {StagingUri(phase.k)} :
       \E pending \in {is_ecr_image_scan_pending(uri, registry, answer)} :
       \E d \in (IF pending = "True" THEN ScanSeconds
                 ELSE {ScanCallSeconds}) :
       \E ops \in {<<Op("is_ecr_image_scan_pending", "test", phase.k, uri,
                        answer)>>} :
       \E failAt \in FailurePoints(ops) :
       \E r \in {RunOps(World, ops, failAt)} :
          /\ Performs(r, IF r.result = "True" THEN phase
                         ELSE [phase EXCEPT !.at = "findings"])
          /\ since_start' = since_start + d
    /\ UNCHANGED completed
    /\ TestUnchanged

\* one turn of while aws.is_ecr_image_scan_pending(image_uri), with
\* assert time.time() - start_time <= ECR_SCAN_TIMEOUT_IN_SECONDS; the call
\* takes d seconds
TestScan ==
    /\ At("test", "scan")
    /\ IsScript("tgi")
    /\ \E answer \in ScanAnswersAfter(log, phase.k) :
       \E uri \in {StagingUri(phase.k)} :
       \E pending \in {is_ecr_image_scan_pending(uri, registry, answer)} :
       \E d \in (IF pending = "True" THEN ScanSeconds
                 ELSE {ScanCallSeconds}) :
       \E ops \in {<<Op("is_ecr_image_scan_pending", "test", phase.k, uri,
                        answer)>>
                    \o (IF pending = "True"
                           /\ since_start + d > ECR_SCAN_TIMEOUT_IN_SECONDS
                        THEN <<Op("raise", "test", phase.k, uri,
                                  "AssertionError")>>
                        ELSE <<>>)} :
       \E failAt \in FailurePoints(ops) :
       \E r \in {RunOps(World, ops, failAt)} :
          /\ Performs(r, IF r.result = "True" THEN phase
                         ELSE [phase EXCEPT !.at = "findings"])
          /\ since_start' = since_start + d
    /\ UNCHANGED completed
    /\ TestUnchanged

\* the pages of findings the registry has for an image: pages of one
\* finding each; the last one has the finding given, the ones before it a
\* finding of severity HIGH
MaxPages == 7

Finding(severity, title) == [severity |-> severity, title |-> title]

CveIgnored == <<"C","V","E","-","2","0","2","3","-","0","0","0","1">>

CveOpen == <<"C","V","E","-","2","0","2","4","-","0","0","0","2">>

PagesWith(n, finding) ==
    [i \in 1..n |-> IF i = n THEN <<finding>>
                    ELSE <<Finding("HIGH", CveOpen)>>]

FindingPages ==
    {<< <<>> >>}
    \cup {PagesWith(1, f) : f \in {Finding("CRITICAL", CveOpen),
                                   Finding("CRITICAL", CveIgnored),
                                   Finding("HIGH", CveOpen)}}
    \cup {PagesWith(n, Finding("CRITICAL", CveOpen))
          : n \in {MaxPages - 1, MaxPages}}

\* aws.get_image_scan_findings(image_uri, {CRITICAL},
\* set(configs.ignore_vulnerabilities)), and
\* assert len(vulnerability_ids) == 0
TestFindings ==
    /\ At("test", "findings")
    /\ IsScript("tgi")
    /\ \E pages \in FindingPages :
       \E uri \in {StagingUri(phase.k)} :
       \E excluded \in {ignore_vulnerabilities(configs)} :
       \E ids \in {get_image_scan_findings(
                       pages, {"CRITICAL"},
                       {excluded[i] : i \in 1..Len(excluded)})} :
       \E ops \in {<<Op("get_image_scan_findings", "test", phase.k, uri,
                        pages)>>
                    \o (IF ids # <<>>
                        THEN <<Op("raise", "test", phase.k, ids,
                                  "AssertionError")>>
                        ELSE <<>>)} :
       \E failAt \in FailurePoints(ops) :
       \E r \in {RunOps(World, ops, failAt)} :
          /\ Performs(r, NextEntry)
          /\ Completes(r, {"test"})
    /\ UNCHANGED since_start
    /\ TestUnchanged

\* pr(configs): build(configs) returned, test(configs) is called
PrTest ==
    /\ At("build", "done")
    /\ env.MODE = <<"P","R">>
    /\ phase' = [fn |-> "test", k |-> 1,
                 at |-> IF releases = <<>> THEN "done" ELSE "check"]
    /\ UNCHANGED <<registry, local, log, parameters, executions, completed,
                   since_start>>
    /\ TestUnchanged

\* one run of the entrypoint, in whatever mode
NextModes ==
    \/ Load
    \/ Validate
    \/ Dispatch
    \/ BuildCheck
    \/ BuildImage
    \/ BuildPush
    \/ PrTest
    \/ TestHarness
    \/ TestScan
    \/ TestFindings
    \/ ReleaseCheck
    \/ ReleasePull
    \/ StageImage
    \/ SetParameters
    \/ StartPipeline
    \/ MarkReleased
    \/ PublishJumpstart

\* the phase is run again, later, by a new process: the configuration is
\* loaded and validated anew, in the mode the new process is given; the
\* registries, the parameter store and the pipelines are as they were left
MaxRuns == 2

\* the modes the runs are given
RunModes == {<<"B","U","I","L","D">>, <<"R","E","L","E","A","S","E">>}

Rerun ==
    /\ pc = "running"
    /\ phase.at \in {"done", "failed", "ValueError"}
    /\ run < MaxRuns
    /\ run' = run + 1
    /\ tick' = IF tick < Len(Clock) THEN tick + 1 ELSE tick
    /\ \E mode \in RunModes : env' = [env EXCEPT !.MODE = mode]
    /\ local' \in {local, {}}
    /\ pc' = "start"
    /\ loadResult' = "none"
    /\ permitted_combinations' = <<>>
    /\ releases' = <<>>
    /\ validateResult' = NoResult
    /\ phase' = NoPhase
    /\ log' = <<>>
    /\ urisCall' = NoUris
    /\ UNCHANGED <<head_commit, configs, stagingCall, releasedCall, image_uri,
                   built_from, clientCall, registry, script, parameters,
                   executions, completed, pipeline, execution, recent,
                   since_start>>

NextPhases ==
    \/ Load
    \/ Validate
    \/ Dispatch
    \/ BuildCheck
    \/ BuildImage
    \/ BuildPush
    \/ ReleaseCheck
    \/ ReleasePull
    \/ StageImage
    \/ SetParameters
    \/ StartPipeline
    \/ MarkReleased
    \/ PublishJumpstart
    \/ Rerun

(***************************************************************************)
(* DlcPipeline for one release, call by call and with the clock: every     *)
(* call takes time, and the object knows the seconds since its last        *)
(* refresh (time.time() - self.last_refresh_time).  Here phase names the   *)
(* method that runs, the turn of its loop and the statement it stands at.  *)
(***************************************************************************)
DEFAULT_CRED_REFRESH_INTERVAL_IN_SECONDS == 1800

DEFAULT_WAIT_INTERVAL_IN_SECONDS == 60

\* what a call can take: no time to speak of, or longer than the interval
SlowCallSeconds == 1801

CallSeconds == {0, SlowCallSeconds}

\* the calls that are remembered
RecentCalls == 4

\* a call of the object: the session was `age` seconds old when it was made
PipelineCall(op, fn, age, arg, result) ==
    [op |-> op, fn |-> fn, age |-> age, arg |-> arg, result |-> result]

Recorded(calls) ==
    The({ IF Len(all) <= RecentCalls THEN all
          ELSE SubSeq(all, Len(all) - RecentCalls + 1, Len(all))
          : all \in {recent \o calls} })

\* d seconds pass
Later(p, d) == [p EXCEPT !.since_refresh = @ + d]

\* the release the object works for
Config == releases[1]

\* mutant of NeedsRefresh: the role is assumed again at the interval already
NeedsRefreshAtInterval(p) ==
    \/ p.dlc_aws = "None"
    \/ p.since_refresh >= DEFAULT_CRED_REFRESH_INTERVAL_IN_SECONDS

\* self.dlc_aws is None
\* or time.time() - self.last_refresh_time > DEFAULT_CRED_REFRESH_INTERVAL_IN_SECONDS
NeedsRefresh(p) ==
    \/ p.dlc_aws = "None"
    \/ p.since_refresh > DEFAULT_CRED_REFRESH_INTERVAL_IN_SECONDS

\* DlcPipeline._refresh_credentials, called by fn: the check, and the role
\* assumed again (a call of d seconds that answers or raises) when it is due
refresh_credentials(p, fn, d, ok) ==
    IF ~NeedsRefresh(p)
    THEN [pipeline |-> p, result |-> "ok",
          calls |-> <<PipelineCall("_refresh_credentials", fn,
                                   p.since_refresh, None, "kept")>>]
    ELSE IF ~ok
    THEN [pipeline |-> Later(p, d), result |-> "ExternalError",
          calls |-> <<PipelineCall("_refresh_credentials", fn,
                                   p.since_refresh, None, "ExternalError")>>]
    ELSE [pipeline |-> [p EXCEPT !.dlc_aws = "session", !.since_refresh = 0],
          result |-> "ok",
          calls |-> <<PipelineCall("_refresh_credentials", fn,
                                   p.since_refresh, None, "refreshed")>>]

PipelineUnchanged ==
    UNCHANGED <<env, head_commit, configs, pc, loadResult,
                permitted_combinations, releases, validateResult,
                stagingCall, releasedCall, tick, urisCall, image_uri,
                built_from, clientCall, script, completed, run, since_start>>

\* pipeline = DlcPipeline(aws, docker_client): __init__ refreshes
Construct ==
    /\ At("DlcPipeline", "init")
    /\ \E d \in CallSeconds : \E ok \in BOOLEAN :
       \E r \in {refresh_credentials(pipeline, "__init__", d, ok)} :
          /\ pipeline' = r.pipeline
          /\ recent' = Recorded(r.calls)
          /\ phase' = IF r.result = "ok"
                      THEN [fn |-> "stage_image", k |-> 1,
                            at |-> "credentials"]
                      ELSE Failed
    /\ UNCHANGED <<registry, local, log, parameters, executions, execution>>
    /\ PipelineUnchanged

\* stage_image: the URIs are derived, then
\* self.dlc_aws.get_ecr_credentials(dlc_uris[0])
StageCredentials ==
    /\ At("stage_image", "credentials")
    /\ \E derived \in {get_image_uris_for_dlc(Config, env, Clock[tick])} :
       IF derived.result # "ok"
       THEN /\ phase' = Failed
            /\ UNCHANGED <<pipeline, recent>>
       ELSE \E d \in CallSeconds : \E ok \in BOOLEAN :
            \E result \in {IF ok
                           THEN get_ecr_credentials(derived.uris[1]).result
                           ELSE "ExternalError"} :
               /\ recent' = Recorded(<<PipelineCall(
                                "get_ecr_credentials", "stage_image",
                                pipeline.since_refresh, derived.uris[1],
                                result)>>)
               /\ pipeline' = Later(pipeline, d)
               /\ phase' = IF Succeeded(result)
                           THEN [phase EXCEPT !.at = "publish"]
                           ELSE Failed
    /\ UNCHANGED <<registry, local, log, parameters, executions, execution>>
    /\ PipelineUnchanged

\* stage_image: docker_client.login, then every URI tagged and pushed
StagePublish ==
    /\ At("stage_image", "publish")
    /\ \E derived \in {get_image_uris_for_dlc(Config, env, Clock[tick])} :
       \E ops \in {<<Op("login", "stage_image", 1, derived.uris[1], None)>>
                    \o TagAndPushEach("stage_image", 1, StagingUri(1),
                                      derived.uris)} :
       \E failAt \in FailurePoints(ops) :
       \E r \in {RunOps(World, ops, failAt)} :
       \E d \in CallSeconds :
          /\ Performs(r, [fn |-> "set_parameters", k |-> 1,
                          at |-> "parameters"])
          /\ pipeline' = Later(pipeline, d)
    /\ UNCHANGED <<recent, execution>>
    /\ PipelineUnchanged

\* set_parameters: one turn of the loop over the parameters of the device
SetParameter ==
    /\ At("set_parameters", "parameters")
    /\ \E ps \in {ParametersOf(Config)} :
       IF ps = <<>>
       THEN /\ phase' = Failed
            /\ UNCHANGED <<pipeline, recent, parameters>>
       ELSE \E d \in CallSeconds : \E ok \in BOOLEAN :
            \E o \in {Op("set_parameter", "set_parameters", 1,
                         ps[phase.k][1], ps[phase.k][2])} :
               /\ recent' = Recorded(<<PipelineCall(
                                "set_parameter", "set_parameters",
                                pipeline.since_refresh, o.uri,
                                IF ok THEN "ok" ELSE "ExternalError")>>)
               /\ pipeline' = Later(pipeline, d)
               /\ parameters' = IF ok THEN Apply(World, o).parameters
                                ELSE parameters
               /\ phase' = IF ~ok THEN Failed
                           ELSE IF phase.k < Len(ps)
                           THEN [phase EXCEPT !.k = @ + 1]
                           ELSE [fn |-> "start_pipeline", k |-> 1,
                                 at |-> "start"]
    /\ UNCHANGED <<registry, local, log, executions, execution>>
    /\ PipelineUnchanged

\* start_pipeline up to the loop: nothing when the execution is not enabled;
\* else the pipeline of the device is started, and polled when the status
\* check is enabled
StartExecution ==
    /\ At("start_pipeline", "start")
    /\ IF ~Enabled(env.DLC_ENABLE_PIPELINE_EXECUTION)
       THEN /\ phase' = [phase EXCEPT !.at = "done"]
            /\ UNCHANGED <<pipeline, recent, executions, execution>>
       ELSE IF StrLower(Config.device) \notin DOMAIN DLC_PIPELINE_NAME_BY_DEVICE
       THEN /\ phase' = Failed
            /\ UNCHANGED <<pipeline, recent, executions, execution>>
       ELSE \E d \in CallSeconds : \E ok \in BOOLEAN :
            \E name \in {DLC_PIPELINE_NAME_BY_DEVICE[StrLower(Config.device)]} :
            \E check \in {Enabled(env.DLC_ENABLE_PIPELINE_STATUS_CHECK)} :
               /\ recent' = Recorded(<<PipelineCall(
                                "start_pipeline_execution", "start_pipeline",
                                pipeline.since_refresh, name,
                                IF ok THEN "ok" ELSE "ExternalError")>>)
               /\ pipeline' = [Later(pipeline, d) EXCEPT
                                 !.status = IF ok /\ check
                                            THEN "IN_PROGRESS" ELSE @]
               /\ executions' = IF ok THEN Append(executions, name)
                                ELSE executions
               /\ execution' = IF ok THEN "InProgress" ELSE execution
               /\ phase' = IF ~ok THEN Failed
                           ELSE IF check THEN [phase EXCEPT !.at = "sleep"]
                           ELSE [phase EXCEPT !.at = "done"]
    /\ UNCHANGED <<registry, local, log, parameters>>
    /\ PipelineUnchanged

\* mutant of Sleep: the loop does not wait
SleepSkipped ==
    /\ At("start_pipeline", "sleep")
    /\ pipeline.status = "IN_PROGRESS"
    /\ phase' = [phase EXCEPT !.at = "refresh"]
    /\ UNCHANGED <<pipeline, recent, registry, local, log, parameters,
                   executions, execution>>
    /\ PipelineUnchanged

\* while status == IN_PROGRESS: time.sleep(DEFAULT_WAIT_INTERVAL_IN_SECONDS)
Sleep ==
    /\ At("start_pipeline", "sleep")
    /\ pipeline.status = "IN_PROGRESS"
    /\ recent' = Recorded(<<PipelineCall("sleep", "start_pipeline",
                                         pipeline.since_refresh,
                                         DEFAULT_WAIT_INTERVAL_IN_SECONDS,
                                         "ok")>>)
    /\ pipeline' = Later(pipeline, DEFAULT_WAIT_INTERVAL_IN_SECONDS)
    /\ phase' = [phase EXCEPT !.at = "refresh"]
    /\ UNCHANGED <<registry, local, log, parameters, executions, execution>>
    /\ PipelineUnchanged

\* self._refresh_credentials() in the loop
Refresh ==
    /\ At("start_pipeline", "refresh")
    /\ \E d \in CallSeconds : \E ok \in BOOLEAN :
       \E r \in {refresh_credentials(pipeline, "start_pipeline", d, ok)} :
          /\ pipeline' = r.pipeline
          /\ recent' = Recorded(r.calls)
          /\ phase' = IF r.result = "ok" THEN [phase EXCEPT !.at = "poll"]
                      ELSE Failed
    /\ UNCHANGED <<registry, local, log, parameters, executions, execution>>
    /\ PipelineUnchanged

\* mutant of Polled: the status is not asserted after the loop
PolledWithoutAssert(status) ==
    IF status = "IN_PROGRESS" THEN [phase EXCEPT !.at = "sleep"]
    ELSE [phase EXCEPT !.at = "done"]

\* the loop goes on while the status is IN_PROGRESS; after it,
\* assert status == PipelineStatus.SUCCESSFUL.name
Polled(status) ==
    IF status = "IN_PROGRESS" THEN [phase EXCEPT !.at = "sleep"]
    ELSE IF status = "SUCCESSFUL" THEN [phase EXCEPT !.at = "done"]
    ELSE Failed

\* mutant of PollStatus: the answer is not looked at
PollStatusUnread ==
    /\ At("start_pipeline", "poll")
    /\ \E d \in CallSeconds :
          /\ recent' = Recorded(<<PipelineCall(
                           "get_pipeline_status", "start_pipeline",
                           pipeline.since_refresh, execution,
                           "IN_PROGRESS")>>)
          /\ pipeline' = Later(pipeline, d)
          /\ phase' = [phase EXCEPT !.at = "sleep"]
    /\ UNCHANGED <<registry, local, log, parameters, executions, execution>>
    /\ PipelineUnchanged

\* status = self.dlc_aws.get_pipeline_status(pipeline_name, execution_id),
\* then the test of the loop and, after the loop, the assertion
PollStatus ==
    /\ At("start_pipeline", "poll")
    /\ \E d \in CallSeconds : \E ok \in BOOLEAN :
       \E status \in {IF ok THEN PipelineStatus(execution)
                      ELSE "ExternalError"} :
          /\ recent' = Recorded(<<PipelineCall(
                           "get_pipeline_status", "start_pipeline",
                           pipeline.since_refresh, execution, status)>>)
          /\ pipeline' = [Later(pipeline, d) EXCEPT
                            !.status = IF ok THEN status ELSE @]
          /\ phase' = IF ok THEN Polled(status) ELSE Failed
    /\ UNCHANGED <<registry, local, log, parameters, executions, execution>>
    /\ PipelineUnchanged

\* what an execution can end as
FinalStatuses == {"Succeeded", "Failed", "Stopped", "Superseded"}

\* the pipeline execution ends, whenever it does
PipelineEnds ==
    /\ pc = "running"
    /\ execution = "InProgress"
    /\ execution' \in FinalStatuses
    /\ UNCHANGED <<phase, pipeline, recent, registry, local, log, parameters,
                   executions>>
    /\ PipelineUnchanged

\* the steps of the poll loop
PollStep ==
    \/ Sleep
    \/ Refresh
    \/ PollStatus

\* the steps of the program
PipelineStep ==
    \/ Construct
    \/ StageCredentials
    \/ StagePublish
    \/ SetParameter
    \/ StartExecution
    \/ PollStep

NextPipeline ==
    \/ PipelineStep
    \/ PipelineEnds

(***************************************************************************)
(* The methods of a DlcPipeline object, each called as a whole by a caller *)
(* of the class, for the release the object was given, in any order.  A    *)
(* caller may go on after a call that raised.                              *)
(***************************************************************************)
MaxCalls == 2

\* what the pipeline answers to the polls of a call of start_pipeline
CallOutcomes == { <<"Succeeded">>, <<"InProgress", "Failed">> }

MethodUnchanged ==
    /\ UNCHANGED <<pipeline, recent, execution>>
    /\ PipelineUnchanged

\* the call has returned or raised
MethodEnds(r) ==
    /\ registry' = r.registry
    /\ local' = r.local
    /\ parameters' = r.parameters
    /\ executions' = r.executions
    /\ log' = r.log
    /\ phase' = [phase EXCEPT !.k = @ + 1,
                              !.at = IF Succeeded(r.result) THEN "returned"
                                     ELSE "raised"]

\* pipeline.set_parameters(config)
CallSetParameters ==
    /\ pc = "running"
    /\ phase.fn = "DlcPipeline"
    /\ phase.k < MaxCalls
    /\ \E ps \in {ParametersOf(Config)} :
       \E ops \in {IF ps = <<>>
                    THEN <<Op("raise", "set_parameters", phase.k + 1, None,
                              "AssertionError")>>
                    ELSE [i \in 1..Len(ps) |->
                             Op("set_parameter", "set_parameters",
                                phase.k + 1, ps[i][1], ps[i][2])]
                         \o <<Op("return", "set_parameters", phase.k + 1,
                                 None, None)>>} :
       \E failAt \in FailurePoints(ops) :
       \E r \in {RunOps(World, ops, failAt)} :
          MethodEnds(r)
    /\ MethodUnchanged

\* pipeline.start_pipeline(config)
CallStartPipeline ==
    /\ pc = "running"
    /\ phase.fn = "DlcPipeline"
    /\ phase.k < MaxCalls
    /\ \E statuses \in CallOutcomes :
       \E ops \in {StartPipelineOps(Config, phase.k + 1, env, statuses)
                    \o <<Op("return", "start_pipeline", phase.k + 1, None,
                            None)>>} :
       \E failAt \in FailurePoints(ops) :
       \E r \in {RunOps(World, ops, failAt)} :
          MethodEnds(r)
    /\ MethodUnchanged

NextMethods ==
    \/ CallSetParameters
    \/ CallStartPipeline

(***************************************************************************)
(* Inputs                                                                  *)
(***************************************************************************)
MaxReleases == 2
MaxRules == 2

BoundedSeq(S, n) == UNION {[1..m -> S] : m \in 0..n}

V090 == <<"0",".","9",".","0">>
V100 == <<"1",".","0",".","0">>
V110 == <<"1",".","1",".","0">>
V120 == <<"1",".","2",".","0">>
V1100 == <<"1",".","1","0",".","0">>
V1110 == <<"1",".","1","1",".","0">>
V11 == <<"1",".","1">>
VLatest == <<"l","a","t","e","s","t">>
Ubuntu2004 == <<"u","b","u","n","t","u","2","0",".","0","4">>
Ubuntu2204 == <<"u","b","u","n","t","u","2","2",".","0","4">>
Debian11 == <<"d","e","b","i","a","n","1","1">>
Cu118 == <<"c","u","1","1","8">>
Cu120 == <<"c","u","1","2","0">>
Py39 == <<"p","y","3","9">>
Py310 == <<"p","y","3","1","0">>
Torch201 == <<"2",".","0",".","1">>
Torch21 == <<"2",".","1">>
CommitA == <<"4","f","2","a","9","c","1">>
CommitB == <<"b","7","e","0","3","d","5">>
StagingRepo == <<"1","2","3","4","5","6","7","8","9","0","1","2",".","d","k","r",".","e","c","r",".","u","s","-","w","e","s","t","-","2",".","a","m","a","z","o","n","a","w","s",".","c","o","m","/","s","t","a","g","i","n","g">>

\* an entry of "releases" in releases.json
Release(fw, dev, ver, os, cuda, py, torch) ==
    [framework |-> fw, device |-> dev, version |-> ver, os_version |-> os,
     cuda_version |-> cuda, python_version |-> py, pytorch_version |-> torch]

\* an entry of "permitted_combinations" in releases.json
Rule(dev, min, max, os, cuda, py, torch) ==
    [device |-> dev, min_version |-> min, max_version |-> max,
     os_version |-> os, cuda_version |-> cuda, python_version |-> py,
     pytorch_version |-> torch]

\* the matrix rules: for TGI two GPU ranges that share 1.1.0, an INF2 range
\* and a GPU range on an OS that is not Ubuntu; for TEI two GPU ranges
RuleA == Rule(<<"g","p","u">>, V100, V110, Ubuntu2004, Cu118, Py39, Torch201)
RuleB == Rule(<<"g","p","u">>, V110, V1100, Ubuntu2204, Cu118, Py39, Torch201)
RuleI == Rule(<<"i","n","f","2">>, V100, V1100, Ubuntu2204, None, Py39, Torch201)
RuleD == Rule(<<"g","p","u">>, V100, V110, Debian11, Cu118, Py39, Torch201)
RuleTA == Rule(<<"g","p","u">>, V100, V110, Ubuntu2004, Cu118, None, None)
RuleTB == Rule(<<"g","p","u">>, V110, V1100, Ubuntu2204, Cu118, None, None)

TgiGpu(ver, os, cuda, py, torch) == Release(<<"t","g","i">>, <<"g","p","u">>, ver, os, cuda, py, torch)

\* GPU releases that differ in version: at, inside and outside the ranges
TgiGpuVersions ==
    { TgiGpu(V100, Ubuntu2004, Cu118, Py39, Torch201),
      TgiGpu(V110, Ubuntu2004, Cu118, Py39, Torch201),
      TgiGpu(V110, Ubuntu2204, Cu118, Py39, Torch201),
      TgiGpu(V120, Ubuntu2204, Cu118, Py39, Torch201),
      TgiGpu(V090, Ubuntu2004, Cu118, Py39, Torch201),
      TgiGpu(V1110, Ubuntu2204, Cu118, Py39, Torch201),
      TgiGpu(V11, Ubuntu2004, Cu118, Py39, Torch201),
      TgiGpu(VLatest, Ubuntu2004, Cu118, Py39, Torch201) }

\* GPU releases of one version that differ in one other field
TgiGpuFields ==
    { TgiGpu(V110, Ubuntu2004, Cu118, Py39, Torch201),
      TgiGpu(V110, Ubuntu2004, None, Py39, Torch201),
      TgiGpu(V110, Ubuntu2004, Cu120, Py39, Torch201),
      TgiGpu(V110, Ubuntu2004, Cu118, Py310, Torch201),
      TgiGpu(V110, Ubuntu2004, Cu118, Py39, Torch21),
      TgiGpu(V110, Debian11, Cu118, Py39, Torch201) }

TgiInf2(ver, os, cuda) == Release(<<"T","G","I">>, <<"i","n","f","2">>, ver, os, cuda, Py39, Torch201)

TgiInf2Releases ==
    { TgiInf2(V110, Ubuntu2204, None),
      TgiInf2(V110, Ubuntu2204, Cu118),
      TgiInf2(V110, Ubuntu2004, None),
      TgiInf2(V1110, Ubuntu2204, None) }

TeiGpu(ver, os, py, torch) == Release(<<"t","e","i">>, <<"G","P","U">>, ver, os, Cu118, py, torch)

TeiGpuReleases ==
    { TeiGpu(V110, Ubuntu2004, None, None),
      TeiGpu(V110, Ubuntu2004, Py39, Torch201),
      TeiGpu(V110, Ubuntu2004, <<"3","9">>, Torch21),
      TeiGpu(V100, Ubuntu2004, None, None),
      TeiGpu(V110, Ubuntu2204, None, None) }

\* a validation scenario: the context, the rules the current framework's
\* matrix is drawn from, the releases the file's list is drawn from
Scenarios ==
    { [framework |-> TGI, device |-> <<"g","p","u">>, rules |-> {RuleA, RuleB},
       entries |-> TgiGpuVersions, other |-> (TEI :> <<RuleTA>>)],
      [framework |-> TGI, device |-> <<"G","P","U">>, rules |-> {RuleA, RuleI, RuleD},
       entries |-> TgiGpuFields, other |-> (TEI :> <<RuleTA>>)],
      [framework |-> TGI, device |-> <<"I","N","F","2">>, rules |-> {RuleI, RuleA},
       entries |-> TgiInf2Releases, other |-> (TEI :> <<RuleTA>>)],
      [framework |-> TEI, device |-> <<"g","p","u">>, rules |-> {RuleTA, RuleTB},
       entries |-> TeiGpuReleases, other |-> (TGI :> <<RuleA, RuleI>>)] }

\* os.environ: a variable that is not set reads None
Environment(fw, dev, commit, repo) ==
    [FRAMEWORK |-> fw, DEVICE_TYPE |-> dev,
     CODEBUILD_RESOLVED_SOURCE_VERSION |-> commit,
     INTERNAL_STAGING_REPO_URI |-> repo,
     DLC_ECR_REPO_URI |-> None,
     JS_ECR_REPO_URI |-> None,
     MODE |-> None,
     DLC_ENABLE_PIPELINE_EXECUTION |-> None,
     DLC_ENABLE_PIPELINE_STATUS_CHECK |-> None]

InitProgram ==
    /\ pc = "start"
    /\ loadResult = "none"
    /\ permitted_combinations = <<>>
    /\ releases = <<>>
    /\ validateResult = NoResult
    /\ stagingCall = NoCall
    /\ releasedCall = NoCall
    /\ tick = 1
    /\ urisCall = NoUris
    /\ clientCall = NoClientCall
    /\ phase = NoPhase
    /\ log = <<>>
    /\ parameters = {}
    /\ executions = <<>>
    /\ completed = {}
    /\ run = 1
    /\ pipeline = NoPipeline
    /\ execution = "none"
    /\ recent = <<>>
    /\ since_start = 0

\* validation: a matrix and a release list for one framework and device
InitValidate ==
    /\ \E sc \in Scenarios :
          /\ env = Environment(sc.framework, sc.device, CommitA, StagingRepo)
          /\ \E rs \in BoundedSeq(sc.rules, MaxRules) :
             \E rl \in BoundedSeq(sc.entries, MaxReleases) :
                configs = [permitted_combinations |->
                               (sc.framework :> rs) @@ sc.other,
                           releases |-> rl]
    /\ head_commit = CommitB
    /\ NoUriUnderTest
    /\ registry = {}
    /\ local = {}
    /\ script = "tgi"
    /\ InitProgram

SpecValidate == InitValidate /\ [][Next]_vars

\* loading: releases of several frameworks and devices, in several contexts
LoadFrameworks == {<<"t","g","i">>, TEI, TGILLAMACPP}
LoadDevices == {<<"g","p","u">>, <<"I","n","f","2">>, <<"c","p","u">>, <<>>}
LoadReleases ==
    { Release(fw, dev, V110, Ubuntu2004, Cu118, Py39, Torch201) :
        fw \in LoadFrameworks, dev \in LoadDevices }
LoadEnvFrameworks == {TGI, TEI, TGILLAMACPP, <<"t","g","i">>}
LoadEnvDevices == {<<"g","p","u">>, INF2, <<"c","p","u">>}

InitLoad ==
    /\ \E fw \in LoadEnvFrameworks : \E dev \in LoadEnvDevices :
          env = Environment(fw, dev, CommitA, StagingRepo)
    /\ \E rl \in BoundedSeq(LoadReleases, MaxReleases) :
          configs = [permitted_combinations |->
                         (TGI :> <<RuleA, RuleI>>) @@ (TEI :> <<RuleTA>>),
                     releases |-> rl]
    /\ head_commit = CommitB
    /\ NoUriUnderTest
    /\ registry = {}
    /\ local = {}
    /\ script = "tgi"
    /\ InitProgram

SpecLoad == InitLoad /\ [][Next]_vars

\* tag derivation: the commit override and the repository URI set or unset
InitTags ==
    /\ \E sc \in Scenarios :
       \E commit \in {None, CommitA} : \E repo \in {None, StagingRepo} :
          /\ env = Environment(sc.framework, sc.device, commit, repo)
          /\ \E rs \in BoundedSeq(sc.rules, 1) :
             \E rl \in BoundedSeq(sc.entries, MaxReleases) :
                configs = [permitted_combinations |->
                               (sc.framework :> rs) @@ sc.other,
                           releases |-> rl]
    /\ head_commit = CommitB
    /\ NoUriUnderTest
    /\ registry = {}
    /\ local = {}
    /\ script = "tgi"
    /\ InitProgram

SpecTags == InitTags /\ [][Next]_vars

\* the published tags: releases of every device a framework allows, with the
\* repository prefixes of the three audiences all set or all unset
DlcRepo == <<"2","1","0","9","8","7","6","5","4","3","2","1",".","d","k","r",".","e","c","r",".","u","s","-","w","e","s","t","-","2",".","a","m","a","z","o","n","a","w","s",".","c","o","m","/","d","l","c","-","s","t","a","g","i","n","g">>
JsRepo == <<"3","4","5","6","7","8","9","0","1","2","3","4",".","d","k","r",".","e","c","r",".","u","s","-","w","e","s","t","-","2",".","a","m","a","z","o","n","a","w","s",".","c","o","m","/","h","f","-">>

RuleC == Rule(<<"c","p","u">>, V100, V1100, Ubuntu2204, None, Py39, Torch201)
RuleTC == Rule(<<"c","p","u">>, V100, V1100, Ubuntu2204, None, None, None)

TeiCpu(ver) == Release(<<"t","e","i">>, <<"c","p","u">>, ver, Ubuntu2204, None, None, None)

LlamaCpu(ver) == Release(<<"t","g","i","l","l","a","m","a","c","p","p">>, <<"c","p","u">>, ver, Ubuntu2204, None, Py39, Torch201)

UriScenarios ==
    { [framework |-> TGI, device |-> <<"g","p","u">>, rules |-> <<RuleA>>,
       entries |-> { TgiGpu(V100, Ubuntu2004, Cu118, Py39, Torch201),
                     TgiGpu(V110, Ubuntu2004, Cu118, Py39, Torch201) }],
      [framework |-> TGI, device |-> <<"i","n","f","2">>, rules |-> <<RuleI>>,
       entries |-> { TgiInf2(V100, Ubuntu2204, None),
                     TgiInf2(V110, Ubuntu2204, None) }],
      [framework |-> TEI, device |-> <<"G","P","U">>, rules |-> <<RuleTA>>,
       entries |-> { TeiGpu(V100, Ubuntu2004, None, None),
                     TeiGpu(V110, Ubuntu2004, None, None) }],
      [framework |-> TEI, device |-> <<"c","p","u">>, rules |-> <<RuleTC>>,
       entries |-> { TeiCpu(V100), TeiCpu(V110) }],
      [framework |-> TGILLAMACPP, device |-> <<"c","p","u">>, rules |-> <<RuleC>>,
       entries |-> { LlamaCpu(V100), LlamaCpu(V110) }] }

\* the repository prefixes of the context
Repositories ==
    { [staging |-> StagingRepo, dlc |-> DlcRepo, js |-> JsRepo],
      [staging |-> None, dlc |-> None, js |-> None] }

WithRepositories(e, r) ==
    [e EXCEPT !.INTERNAL_STAGING_REPO_URI = r.staging,
              !.DLC_ECR_REPO_URI = r.dlc,
              !.JS_ECR_REPO_URI = r.js]

InitUris ==
    /\ \E sc \in UriScenarios :
       \E commit \in {None, CommitA} : \E r \in Repositories :
          /\ env = WithRepositories(
                       Environment(sc.framework, sc.device, commit, None), r)
          /\ \E rl \in BoundedSeq(sc.entries, MaxReleases) :
                configs = [permitted_combinations |->
                               (sc.framework :> sc.rules),
                           releases |-> rl]
    /\ head_commit = CommitB
    /\ NoUriUnderTest
    /\ registry = {}
    /\ local = {}
    /\ script = "tgi"
    /\ InitProgram

SpecUris == InitUris /\ [][NextUris]_vars

\* URI parsing: URIs built from a host, a repository, a separator and a tag,
\* and texts that are built otherwise; one staged image in the registry and
\* in the local engine
EcrHost == <<"1","2","3","4","5","6","7","8","9","0","1","2",".","d","k","r",".","e","c","r",".","u","s","-","w","e","s","t","-","2",".","a","m","a","z","o","n","a","w","s",".","c","o","m">>
ParseHosts == {EcrHost, <<"l","o","c","a","l","h","o","s","t",":","5","0","0","0">>, <<>>}
ParseRepos == {<<"s","t","a","g","i","n","g">>, <<"h","f","-","t","g","i">>, <<"h","u","g","g","i","n","g","f","a","c","e","/","t","g","i">>, <<"m","y",".","r","e","p","o">>, <<>>}
ParseTags ==
    {<<"1",".","0",".","0","-","g","p","u","-","4","f","2","a","9","c","1">>, <<"1",".","0",".","0","-","g","p","u","-","4","f","2","a","9","c","1","-","r","e","l","e","a","s","e","d">>, <<"s","h","a","2","5","6",":","a","b","1","2">>,
     <<"v","1","-","s","h","a","2","5","6">>, <<"S","H","A","2","5","6",":","a","b","1","2">>, <<"l","a","t","e","s","t">> \o <<"\n">>, <<>>}
ParseSeparators == {":", "@"}
OtherUris == {<<"N","o","n","e",":","1",".","0",".","0","-","g","p","u","-","4","f","2","a","9","c","1">>, <<"s","t","a","g","i","n","g">>, EcrHost \o <<"/","s","t","a","g","i","n","g">>}

BuildUri(b) == b.host \o <<"/">> \o b.repo \o <<b.sep>> \o b.tag

StagedImage ==
    [account |-> <<"1","2","3","4","5","6","7","8","9","0","1","2">>, repo |-> <<"s","t","a","g","i","n","g">>,
     tag |-> <<"1",".","0",".","0","-","g","p","u","-","4","f","2","a","9","c","1">>, image |-> <<"s","h","a","2","5","6",":","a","b","1","2">>]

InitParse ==
    /\ \/ \E h \in ParseHosts : \E r \in ParseRepos :
          \E s \in ParseSeparators : \E g \in ParseTags :
             /\ built_from = [host |-> h, repo |-> r, sep |-> s, tag |-> g]
             /\ image_uri = BuildUri(built_from)
       \/ /\ built_from = NotBuilt
          /\ image_uri \in OtherUris
    /\ registry = {StagedImage}
    /\ local = {[ref |-> EcrHost \o <<"/","s","t","a","g","i","n","g",":","1",".","0",".","0","-","g","p","u","-","4","f","2","a","9","c","1">>,
                  image |-> StagedImage.image]}
    /\ script = "tgi"
    /\ env = Environment(TGI, <<"g","p","u">>, CommitA, StagingRepo)
    /\ configs = [permitted_combinations |-> (TGI :> <<RuleA>>),
                  releases |-> <<>>]
    /\ head_commit = CommitB
    /\ InitProgram

SpecParse == InitParse /\ [][NextParse]_vars

\* the phases: each entrypoint with a configuration it validates, in BUILD
\* or RELEASE mode, over registries that are empty or hold the staging images
\* already; tgi.py with the pipeline switched on and checked or switched off,
\* tgi-llamacpp.py also without the JumpStart repository prefix
PipelineFlags ==
    { [execution |-> <<"T","r","u","e">>, check |-> <<"t","r","u","e">>],
      [execution |-> None, check |-> None] }

PhaseRepositories ==
    Repositories \cup {[staging |-> StagingRepo, dlc |-> DlcRepo, js |-> None]}

PhaseScenarios ==
    { [script |-> "tgi", framework |-> TGI, device |-> <<"g","p","u">>,
       rules |-> <<RuleA>>,
       releases |-> << TgiGpu(V100, Ubuntu2004, Cu118, Py39, Torch201),
                       TgiGpu(V110, Ubuntu2004, Cu118, Py39, Torch201) >>,
       repositories |-> Repositories, flags |-> PipelineFlags],
      [script |-> "tgi", framework |-> TGI, device |-> <<"i","n","f","2">>,
       rules |-> <<RuleI>>,
       releases |-> << TgiInf2(V110, Ubuntu2204, None) >>,
       repositories |-> Repositories, flags |-> PipelineFlags],
      [script |-> "tgi-llamacpp", framework |-> TGILLAMACPP, device |-> <<"c","p","u">>,
       rules |-> <<RuleC>>,
       releases |-> << LlamaCpu(V100), LlamaCpu(V110) >>,
       repositories |-> PhaseRepositories,
       flags |-> {[execution |-> None, check |-> None]}] }

\* the registries with the staging image of every release that has a
\* staging URI, as an earlier BUILD left them
RECURSIVE StagedRegistry(_, _, _, _)
StagedRegistry(rels, k, e, head) ==
    IF k > Len(rels) THEN {}
    ELSE LET parts == split_ecr_image_uri(
                          get_image_uri_for_staging(rels[k], e, head))
             rest  == StagedRegistry(rels, k + 1, e, head)
         IN  IF parts.result = "ok"
             THEN Pushed(rest, parts, BuiltImage(k, 0))
             ELSE rest

InitPhases ==
    /\ \E sc \in PhaseScenarios : \E r \in sc.repositories :
       \E flags \in sc.flags : \E mode \in RunModes :
       \E staged \in BOOLEAN :
          /\ script = sc.script
          /\ env = [WithRepositories(
                       Environment(sc.framework, sc.device, CommitA, None), r)
                    EXCEPT !.MODE = mode,
                           !.DLC_ENABLE_PIPELINE_EXECUTION = flags.execution,
                           !.DLC_ENABLE_PIPELINE_STATUS_CHECK = flags.check]
          /\ configs = [permitted_combinations |->
                            (sc.framework :> sc.rules),
                        releases |-> sc.releases]
          /\ registry = IF staged
                        THEN StagedRegistry(sc.releases, 1, env, CommitB)
                        ELSE {}
    /\ local = {}
    /\ NoUriUnderTest
    /\ head_commit = CommitB
    /\ InitProgram

SpecPhases == InitPhases /\ [][NextPhases]_vars

\* one run in every mode, and in what is no mode: unset, empty, in another
\* case, with more letters
NoModes == {None, <<>>, <<"b","u","i","l","d">>, <<"T","E","S","T","S">>}

AllModes == Modes \cup NoModes

InitModes ==
    /\ \E sc \in PhaseScenarios : \E r \in sc.repositories :
       \E mode \in AllModes :
       \E flags \in (IF mode = <<"R","E","L","E","A","S","E">> THEN sc.flags
                     ELSE {[execution |-> None, check |-> None]}) :
       \E staged \in BOOLEAN :
          /\ script = sc.script
          /\ env = [WithRepositories(
                       Environment(sc.framework, sc.device, CommitA, None), r)
                    EXCEPT !.MODE = mode,
                           !.DLC_ENABLE_PIPELINE_EXECUTION = flags.execution,
                           !.DLC_ENABLE_PIPELINE_STATUS_CHECK = flags.check]
          /\ configs = [permitted_combinations |->
                            (sc.framework :> sc.rules),
                        ignore_vulnerabilities |-> <<CveIgnored>>,
                        releases |-> sc.releases]
          /\ registry = IF staged
                        THEN StagedRegistry(sc.releases, 1, env, CommitB)
                        ELSE {}
    /\ local = {}
    /\ NoUriUnderTest
    /\ head_commit = CommitB
    /\ InitProgram

SpecModes == InitModes /\ [][NextModes]_vars

\* the entrypoints with a configuration that does not load (a device the
\* framework does not allow, a framework name in small letters) or does not
\* validate (a version outside the ranges, a field that differs from the
\* rule, after an entry that is valid or alone), in every mode
RejectedScenarios ==
    { [script |-> "tgi", framework |-> TGI, device |-> <<"g","p","u">>,
       rules |-> <<RuleA>>,
       releases |-> << TgiGpu(V100, Ubuntu2004, Cu118, Py39, Torch201),
                       Release(TGI, <<"c","p","u">>, V110, Ubuntu2204, None,
                               Py39, Torch201) >>],
      [script |-> "tgi", framework |-> <<"t","g","i">>, device |-> <<"g","p","u">>,
       rules |-> <<RuleA>>,
       releases |-> << TgiGpu(V100, Ubuntu2004, Cu118, Py39, Torch201) >>],
      [script |-> "tgi", framework |-> TGI, device |-> <<"g","p","u">>,
       rules |-> <<RuleA>>,
       releases |-> << TgiGpu(V100, Ubuntu2004, Cu118, Py39, Torch201),
                       TgiGpu(V120, Ubuntu2204, Cu118, Py39, Torch201) >>],
      [script |-> "tgi", framework |-> TGI, device |-> <<"g","p","u">>,
       rules |-> <<RuleA>>,
       releases |-> << TgiGpu(V110, Ubuntu2004, Cu120, Py39, Torch201) >>],
      [script |-> "tgi-llamacpp", framework |-> TGILLAMACPP,
       device |-> <<"c","p","u">>, rules |-> <<RuleC>>,
       releases |-> << LlamaCpu(V100), LlamaCpu(V090) >>],
      [script |-> "tgi-llamacpp", framework |-> TGILLAMACPP,
       device |-> <<"c","p","u">>, rules |-> <<RuleC>>,
       releases |-> << LlamaCpu(V100),
                       Release(TGILLAMACPP, <<"g","p","u">>, V110, Ubuntu2204,
                               Cu118, Py39, Torch201) >>] }

InitRejected ==
    /\ \E sc \in RejectedScenarios : \E mode \in Modes :
       \E flags \in PipelineFlags : \E staged \in BOOLEAN :
          /\ script = sc.script
          /\ env = [Environment(sc.framework, sc.device, CommitA, StagingRepo)
                    EXCEPT !.DLC_ECR_REPO_URI = DlcRepo,
                           !.JS_ECR_REPO_URI = JsRepo,
                           !.MODE = mode,
                           !.DLC_ENABLE_PIPELINE_EXECUTION = flags.execution,
                           !.DLC_ENABLE_PIPELINE_STATUS_CHECK = flags.check]
          /\ configs = [permitted_combinations |->
                            (sc.framework :> sc.rules),
                        ignore_vulnerabilities |-> <<CveIgnored>>,
                        releases |-> sc.releases]
          /\ registry = IF staged
                        THEN StagedRegistry(<<sc.releases[1]>>, 1, env,
                                            CommitB)
                        ELSE {}
    /\ local = {}
    /\ NoUriUnderTest
    /\ head_commit = CommitB
    /\ InitProgram

\* the entrypoints with every configuration, accepted or not
InitEntry == InitModes \/ InitRejected

SpecEntry == InitEntry /\ [][NextModes]_vars

\* DlcPipeline: one validated TGI release whose staging image was pulled, the
\* execution and the status check each switched on or off
PipelineSwitches ==
    PipelineFlags
    \cup {[execution |-> <<"t","r","u","e">>, check |-> <<"F","a","l","s","e">>],
          [execution |-> <<"T","R","U","E">>, check |-> None]}

InitPipeline ==
    /\ \E sc \in {s \in PhaseScenarios : s.script = "tgi"} :
       \E i \in 1..Len(sc.releases) :
       \E r \in sc.repositories : \E flags \in PipelineSwitches :
          /\ script = sc.script
          /\ env = [WithRepositories(
                       Environment(sc.framework, sc.device, CommitA, None), r)
                    EXCEPT !.MODE = <<"R","E","L","E","A","S","E">>,
                           !.DLC_ENABLE_PIPELINE_EXECUTION = flags.execution,
                           !.DLC_ENABLE_PIPELINE_STATUS_CHECK = flags.check]
          /\ configs = [permitted_combinations |->
                            (sc.framework :> sc.rules),
                        releases |-> <<sc.releases[i]>>]
          /\ \E loaded \in {ReleaseConfigs_init(configs, env)} :
                /\ loadResult = loaded.result
                /\ permitted_combinations = loaded.permitted_combinations
                /\ releases = loaded.releases
                /\ validateResult = validate(loaded.releases,
                                             loaded.permitted_combinations,
                                             env, FALSE)
          /\ registry = StagedRegistry(releases, 1, env, CommitB)
          /\ local = DockerPull(
                         get_image_uri_for_staging(releases[1], env, CommitB),
                         {}, registry).local
    /\ NoUriUnderTest
    /\ head_commit = CommitB
    /\ pc = "running"
    /\ phase = [fn |-> "DlcPipeline", k |-> 1, at |-> "init"]
    /\ stagingCall = NoCall
    /\ releasedCall = NoCall
    /\ tick = 1
    /\ urisCall = NoUris
    /\ clientCall = NoClientCall
    /\ log = <<>>
    /\ parameters = {}
    /\ executions = <<>>
    /\ completed = {}
    /\ run = 1
    /\ pipeline = NoPipeline
    /\ execution = "none"
    /\ recent = <<>>
    /\ since_start = 0

SpecPipeline == InitPipeline /\ [][NextPipeline]_vars

\* the poll loop goes on as long as it has a step to take: the program is
\* one thread, a sleep ends, and every call it waits for answers or raises
SpecPipelineLive ==
    InitPipeline /\ [][NextPipeline]_vars /\ WF_vars(PollStep)

\* a DlcPipeline object and one release of a configuration that loads and
\* validates, of a device with parameters and a pipeline (GPU, INF2) or
\* without (CPU); the parameter store is empty or holds values of an earlier
\* release
PriorStores ==
    { {},
      {[name |-> "/huggingface-pytorch-tgi/gpu/cuda-version", value |-> Cu120],
       [name |-> "/huggingface-pytorch-tgi/neuronx/os-version",
        value |-> Ubuntu2004]} }

\* the switches, also with the execution set to a word that is not true
MethodSwitches ==
    PipelineSwitches \cup {[execution |-> <<"y","e","s">>, check |-> <<"t","r","u","e">>]}

InitMethods ==
    /\ \E sc \in PhaseScenarios :
       \E i \in 1..Len(sc.releases) :
       \E flags \in MethodSwitches :
          /\ script = "tgi"
          /\ env = [Environment(sc.framework, sc.device, CommitA, StagingRepo)
                    EXCEPT !.DLC_ECR_REPO_URI = DlcRepo,
                           !.MODE = <<"R","E","L","E","A","S","E">>,
                           !.DLC_ENABLE_PIPELINE_EXECUTION = flags.execution,
                           !.DLC_ENABLE_PIPELINE_STATUS_CHECK = flags.check]
          /\ configs = [permitted_combinations |->
                            (sc.framework :> sc.rules),
                        releases |-> <<sc.releases[i]>>]
          /\ \E loaded \in {ReleaseConfigs_init(configs, env)} :
                /\ loadResult = loaded.result
                /\ permitted_combinations = loaded.permitted_combinations
                /\ releases = loaded.releases
                /\ validateResult = validate(loaded.releases,
                                             loaded.permitted_combinations,
                                             env, FALSE)
    /\ parameters \in PriorStores
    /\ registry = {}
    /\ local = {}
    /\ NoUriUnderTest
    /\ head_commit = CommitB
    /\ pc = "running"
    /\ phase = [fn |-> "DlcPipeline", k |-> 0, at |-> "constructed"]
    /\ stagingCall = NoCall
    /\ releasedCall = NoCall
    /\ tick = 1
    /\ urisCall = NoUris
    /\ clientCall = NoClientCall
    /\ log = <<>>
    /\ executions = <<>>
    /\ completed = {}
    /\ run = 1
    /\ pipeline = [dlc_aws |-> "session", since_refresh |-> 0,
                   status |-> "none"]
    /\ execution = "none"
    /\ recent = <<>>
    /\ since_start = 0

SpecMethods == InitMethods /\ [][NextMethods]_vars

(***************************************************************************)
(* Properties of validate()                                                *)
(***************************************************************************)
ValidateDone == pc \in {"validated", "validate_failed"}

\* the releases validate() went through before it returned or raised
Processed == 1..Len(validateResult.cands)

\* release k passed its own check; release k is the one the error was raised at
Accepted(k) == k \in Processed /\ validateResult.entry # k
Rejected(k) == k \in Processed /\ validateResult.entry = k

\* rule r has the release's device and a version range that holds its version
InRangeOf(e, r) ==
    /\ StrUpper(e.device) = StrUpper(r.device)
    /\ VersionLeq(r.min_version, e.version)
    /\ VersionLeq(e.version, r.max_version)

CandidateRules(e) ==
    {i \in 1..Len(permitted_combinations) :
        InRangeOf(e, permitted_combinations[i])}

FirstCandidate(e) ==
    IF CandidateRules(e) = {} THEN 0
    ELSE CHOOSE i \in CandidateRules(e) : \A j \in CandidateRules(e) : i <= j

IsGpu(e) == StrUpper(e.device) = GPU

\* the field equalities: cuda for GPU, os, python and pytorch unless TEI
FieldsEqual(e, r) ==
    /\ IsGpu(e) => e.cuda_version = r.cuda_version
    /\ e.os_version = r.os_version
    /\ e.framework # TEI =>
          /\ e.python_version = r.python_version
          /\ e.pytorch_version = r.pytorch_version

\* the format constraints: the markers cu, ubuntu and py, and X.Y.Z
FieldsWellFormed(e) ==
    /\ IsGpu(e) =>
          e.cuda_version # None /\ StrIn(<<"c","u">>, e.cuda_version)
    /\ SearchXYZ(e.version)
    /\ StrIn(<<"u","b","u","n","t","u">>, e.os_version)
    /\ e.framework # TEI =>
          /\ e.python_version # None /\ StrIn(<<"p","y">>, e.python_version)
          /\ e.pytorch_version # None /\ SearchXYZ(e.pytorch_version)

\* a rule matches a release: device, range and field equalities
Matches(e, r) == InRangeOf(e, r) /\ FieldsEqual(e, r)

MatchingRules(e) ==
    {i \in 1..Len(permitted_combinations) :
        Matches(e, permitted_combinations[i])}

\* C1 as stated: a release is accepted iff SOME rule matches it, and is
\* otherwise rejected with the no-permitted-combination error.
C1_AcceptsIffSomeRuleMatches ==
    ValidateDone =>
        \A k \in Processed :
            /\ Accepted(k) <=> MatchingRules(releases[k]) # {}
            /\ Rejected(k) => validateResult.kind = "NoPermittedCombination"

\* C1 amended: a release whose version is a valid version is accepted iff the
\* FIRST rule with its device and a range holding its version has all field
\* constraints (equalities and formats) satisfied; it is rejected with the
\* no-permitted-combination error iff no rule has its device and such a range.
C1_AcceptsIffFirstCandidateHolds ==
    ValidateDone =>
        \A k \in Processed :
            LET e == releases[k]
                c == FirstCandidate(e)
            IN  IsReleaseVersion(e.version) =>
                  /\ Accepted(k) <=>
                        /\ c # 0
                        /\ FieldsEqual(e, permitted_combinations[c])
                        /\ FieldsWellFormed(e)
                  /\ Rejected(k) =>
                        (validateResult.kind = "NoPermittedCombination"
                            <=> c = 0)

\* a release was rejected with a field error although a later rule matches it
C1_Witness ==
    /\ ValidateDone
    /\ \E k \in Processed :
          /\ Rejected(k)
          /\ validateResult.kind = "InvalidOS"
          /\ \E i \in MatchingRules(releases[k]) :
                i > FirstCandidate(releases[k])
                /\ FieldsWellFormed(releases[k])

\* C2: the rule whose assertions are run for a release is the first rule, in
\* matrix order, with the release's device and a range holding its version
\* (none if there is no such rule), and that rule alone decides the release.
C2_FirstRuleOnly ==
    ValidateDone =>
        \A k \in Processed :
            LET e == releases[k]
                c == validateResult.cands[k]
            IN  /\ c = FirstCandidate(e)
                /\ c # 0 =>
                      (Accepted(k) <=>
                          /\ FieldsEqual(e, permitted_combinations[c])
                          /\ FieldsWellFormed(e))

\* a release with two rules in range, run against the first of them only,
\* where the second would have accepted it
C2_Witness ==
    /\ ValidateDone
    /\ \E k \in Processed :
          /\ Cardinality(CandidateRules(releases[k])) >= 2
          /\ validateResult.cands[k] = 1
          /\ Rejected(k)
          /\ 2 \in MatchingRules(releases[k])

\* C3 as stated: an INF2 release that carries a cuda_version makes validate()
\* fail.
C3_Inf2WithCudaFails ==
    pc = "validated" =>
        \A k \in 1..Len(releases) :
            StrUpper(releases[k].device) = INF2 =>
                releases[k].cuda_version = None

\* an INF2 release with a cuda_version went through validate() unharmed
C3_Witness ==
    /\ pc = "validated"
    /\ \E k \in 1..Len(releases) :
          /\ releases[k].device = INF2
          /\ releases[k].cuda_version # None

\* release e has the version of an end of rule r's range
AtEndOf(e, r) == e.version = r.min_version \/ e.version = r.max_version

\* C4 as stated: a release whose version is an end of the range of a rule of
\* its device, with that rule's fields, validates; a release whose version is
\* outside the range of every rule of its device fails with the
\* no-permitted-combination error, which names it.
C4_EndsOfAnyRuleValidate ==
    ValidateDone =>
        \A k \in Processed :
            LET e == releases[k]
            IN  /\ (\E i \in MatchingRules(e) :
                        AtEndOf(e, permitted_combinations[i]))
                      => Accepted(k)
                /\ (IsReleaseVersion(e.version) /\ CandidateRules(e) = {})
                      => /\ Rejected(k)
                         /\ validateResult.kind = "NoPermittedCombination"

\* C4 amended: a release whose version is an end of the range of the FIRST
\* rule of its device whose range holds it, with that rule's fields in the
\* required formats, is accepted against that rule; a release whose version is
\* outside the range of every rule of its device is rejected with the
\* no-permitted-combination error.
C4_EndsOfFirstRuleValidate ==
    ValidateDone =>
        \A k \in Processed :
            LET e == releases[k]
            IN  /\ \A i \in 1..Len(permitted_combinations) :
                      LET r == permitted_combinations[i]
                      IN  (/\ StrUpper(e.device) = StrUpper(r.device)
                           /\ AtEndOf(e, r)
                           /\ VersionLeq(r.min_version, r.max_version)
                           /\ \A j \in 1..(i - 1) : j \notin CandidateRules(e)
                           /\ FieldsEqual(e, r)
                           /\ FieldsWellFormed(e))
                          => Accepted(k) /\ validateResult.cands[k] = i
                /\ (IsReleaseVersion(e.version) /\ CandidateRules(e) = {})
                      => /\ Rejected(k)
                         /\ validateResult.kind = "NoPermittedCombination"

\* one run accepted a release at the upper end of its rule's range and
\* rejected a release above every range
C4_Witness ==
    /\ validateResult.kind = "NoPermittedCombination"
    /\ validateResult.entry = 2
    /\ Len(permitted_combinations) > 0
    /\ LET r == permitted_combinations[1]
       IN  /\ Accepted(1)
           /\ validateResult.cands[1] = 1
           /\ releases[1].version = r.max_version
           /\ r.min_version # r.max_version
           /\ IsReleaseVersion(releases[2].version)
           /\ ~VersionLeq(releases[2].version, r.max_version)

\* two releases with the same (device, version) pair that differ otherwise
DuplicatePair ==
    \E a, b \in 1..Len(releases) :
        /\ a # b
        /\ releases[a].device = releases[b].device
        /\ releases[a].version = releases[b].version
        /\ releases[a] # releases[b]

\* C5 as stated: with such a pair validate() fails with the duplicate error.
C5_DuplicatePairGivesDuplicateError ==
    (ValidateDone /\ DuplicatePair) => validateResult.kind = "Duplicate"

\* C5 amended: with such a pair validate() fails, and it fails with the
\* duplicate error when no release fails its own check.
C5_DuplicatePairFails ==
    (ValidateDone /\ DuplicatePair) =>
        /\ validateResult.kind # "ok"
        /\ validateResult.entry = 0 => validateResult.kind = "Duplicate"

\* two differing releases, each accepted, raised the duplicate error
C5_Witness ==
    /\ ValidateDone
    /\ DuplicatePair
    /\ validateResult.kind = "Duplicate"
    /\ \A k \in 1..Len(releases) :
          Accepted(k) /\ MatchingRules(releases[k]) # {}

\* no two releases share a (device, version) pair
DistinctPairs ==
    \A a, b \in 1..Len(releases) :
        (/\ releases[a].device = releases[b].device
         /\ releases[a].version = releases[b].version) => a = b

\* C6 as stated: after a validate() without error every release matches
\* exactly one rule, and no two releases share a (device, version) pair.
C6_ExactlyOneRuleMatches ==
    pc = "validated" =>
        /\ \A k \in 1..Len(releases) :
              Cardinality(MatchingRules(releases[k])) = 1
        /\ DistinctPairs

\* C6 amended: after a validate() without error every release matches at least
\* one rule (the first of its device whose range holds its version), and no
\* two releases share a (device, version) pair.
C6_SomeRuleMatches ==
    pc = "validated" =>
        /\ \A k \in 1..Len(releases) :
              FirstCandidate(releases[k]) \in MatchingRules(releases[k])
        /\ DistinctPairs

\* a validate() without error of two releases, one matched by two rules
C6_Witness ==
    /\ pc = "validated"
    /\ Len(releases) >= 2
    /\ \E k \in 1..Len(releases) :
          Cardinality(MatchingRules(releases[k])) >= 2

\* python_version and pytorch_version values a TEI release may carry
TeiPythonValues == {None, <<"p","y","3","9">>, <<"3","9">>}
TeiPytorchValues == {None, <<"2",".","0",".","1">>, <<"2",".","1">>}

\* the releases with the k-th one's python and pytorch versions replaced
WithPython(rels, k, py, torch) ==
    [rels EXCEPT ![k] = [@ EXCEPT !.python_version = py,
                                  !.pytorch_version = torch]]

\* C7: after a validate() without error each release has the os_version of
\* its candidate rule, each GPU release its cuda_version, each release that is
\* not TEI its python_version and pytorch_version; and the python_version and
\* pytorch_version of a TEI release do not change what validate() does.
C7_FieldsEqualCandidate ==
    /\ pc = "validated" =>
          \A k \in 1..Len(releases) :
              LET e == releases[k]
                  c == validateResult.cands[k]
              IN  /\ c # 0
                  /\ e.os_version = permitted_combinations[c].os_version
                  /\ StrLower(e.device) = <<"g","p","u">> =>
                        e.cuda_version = permitted_combinations[c].cuda_version
                  /\ e.framework # TEI =>
                        /\ e.python_version =
                              permitted_combinations[c].python_version
                        /\ e.pytorch_version =
                              permitted_combinations[c].pytorch_version
    /\ ValidateDone =>
          \A k \in 1..Len(releases) :
              releases[k].framework = TEI =>
                  \A py \in TeiPythonValues : \A torch \in TeiPytorchValues :
                      \E legacy \in BOOLEAN :
                          validate(WithPython(releases, k, py, torch),
                                   permitted_combinations, env, legacy)
                              = validateResult

\* validate() returned without error for a TEI release whose python_version
\* ("39") is not its candidate rule's (None)
C7_Witness ==
    /\ pc = "validated"
    /\ \E k \in 1..Len(releases) :
          /\ releases[k].framework = TEI
          /\ releases[k].python_version = <<"3","9">>
          /\ permitted_combinations[validateResult.cands[k]].python_version
                = None

(***************************************************************************)
(* Properties of ReleaseConfigs()                                          *)
(***************************************************************************)
LoadDone == pc # "start"

Inputs == 1..Len(configs.releases)

\* the input entry is of the current framework / the current device,
\* whatever the letter case
OfCurrentFramework(e) == StrLower(e.framework) = StrLower(env.FRAMEWORK)
OfCurrentDevice(e) == StrLower(e.device) = StrLower(env.DEVICE_TYPE)

\* the entry's device is one FRAMEWORK_DEVICE_DICT allows for framework fw
AllowedFor(e, fw) ==
    /\ fw \in DOMAIN FRAMEWORK_DEVICE_DICT
    /\ StrUpper(e.device) \in FRAMEWORK_DEVICE_DICT[fw]

\* C8 as stated: after a successful load every entry of the input (that names
\* a device), whatever its framework, has a device allowed for its own
\* framework (the load fails if any entry has not).
C8_EveryEntryAllowed ==
    (LoadDone /\ loadResult = "ok") =>
        \A i \in Inputs :
            configs.releases[i].device # <<>> =>
                AllowedFor(configs.releases[i],
                           StrUpper(configs.releases[i].framework))

\* C8 amended: after a successful load every entry of the input whose
\* framework is the current FRAMEWORK and whose device is not empty has a
\* device allowed for that framework (the load fails if any such entry has
\* not), and the unsupported-device error is raised only for such an entry.
C8_CurrentFrameworkEntriesAllowed ==
    LoadDone =>
        LET bad == {i \in Inputs :
                       /\ StrUpper(configs.releases[i].framework)
                             = env.FRAMEWORK
                       /\ configs.releases[i].device # <<>>
                       /\ ~AllowedFor(configs.releases[i], env.FRAMEWORK)}
        IN  /\ loadResult = "ok" => bad = {}
            /\ loadResult = "UnsupportedDevice" => bad # {}

\* a load that failed for the device of its second entry, which is not the
\* current device
C8_Witness ==
    /\ loadResult = "UnsupportedDevice"
    /\ Len(configs.releases) = 2
    /\ AllowedFor(configs.releases[1], env.FRAMEWORK)
    /\ ~AllowedFor(configs.releases[2], env.FRAMEWORK)
    /\ ~OfCurrentDevice(configs.releases[2])

\* the input entries the load keeps: current framework and current device
KeptInputs ==
    {i \in Inputs : /\ OfCurrentFramework(configs.releases[i])
                    /\ OfCurrentDevice(configs.releases[i])}

\* the n-th kept input entry, in input order
NthKept(n) ==
    CHOOSE i \in KeptInputs : Cardinality({j \in KeptInputs : j < i}) = n - 1

\* releases is the kept entries in input order, framework and device in
\* upper case
ReleasesAreKeptInputs ==
    /\ Len(releases) = Cardinality(KeptInputs)
    /\ \A n \in 1..Len(releases) :
          LET e == configs.releases[NthKept(n)]
          IN  releases[n] = [e EXCEPT !.framework = StrUpper(e.framework),
                                      !.device = StrUpper(e.device)]

\* the input without the entries that satisfy Drop
Without(Drop(_)) ==
    [configs EXCEPT !.releases = SelectSeq(@, LAMBDA e : ~Drop(e))]

OtherDevice(e) == ~OfCurrentDevice(e)

\* another device, and one that cannot fail the allow-list check
OtherAllowedDevice(e) ==
    /\ ~OfCurrentDevice(e)
    /\ \/ StrUpper(e.framework) # env.FRAMEWORK
       \/ e.device = <<>>
       \/ AllowedFor(e, env.FRAMEWORK)

\* C9 as stated: after a successful load releases is the kept entries in input
\* order, and the entries of other devices never make the load fail: the load
\* ends as it does without them.
C9_OtherDevicesNeverFailLoad ==
    LoadDone =>
        /\ loadResult = "ok" => ReleasesAreKeptInputs
        /\ loadResult = ReleaseConfigs_init(Without(OtherDevice), env).result

\* C9 amended: after a successful load releases is the kept entries in input
\* order (framework and device upper-cased), and the entries of other devices
\* that the current framework allows (or that have no device, or are of
\* another framework) never make the load fail: the load ends as it does
\* without them.
C9_OtherAllowedDevicesNeverFailLoad ==
    LoadDone =>
        /\ loadResult = "ok" => ReleasesAreKeptInputs
        /\ loadResult =
              ReleaseConfigs_init(Without(OtherAllowedDevice), env).result

\* a successful load of two entries of the current framework that kept the
\* second and dropped the first, which is of another allowed device
C9_Witness ==
    /\ loadResult = "ok"
    /\ Len(configs.releases) = 2
    /\ Len(releases) = 1
    /\ KeptInputs = {2}
    /\ OfCurrentFramework(configs.releases[1])
    /\ configs.releases[1].device # <<>>
    /\ releases[1].device # configs.releases[2].device

(***************************************************************************)
(* Properties of the image URIs                                            *)
(***************************************************************************)
\* C10: for every release and in every context, the released URI is the
\* staging URI followed by the literal -released.
C10_ReleasedIsStagingPlusSuffix ==
    (stagingCall.entry # 0 /\ stagingCall.entry = releasedCall.entry) =>
        releasedCall.uri
            = stagingCall.uri \o <<"-","r","e","l","e","a","s","e","d">>

\* both URIs were derived for the second release, without a commit override
C10_Witness ==
    /\ stagingCall.entry = 2
    /\ releasedCall.entry = 2
    /\ env.CODEBUILD_RESOLVED_SOURCE_VERSION = None
    /\ releases[1].version # releases[2].version

\* C11: the staging URI is the staging repository prefix, a colon, and the
\* tag version-device-commit with the device lower-cased, where the commit is
\* CODEBUILD_RESOLVED_SOURCE_VERSION when set and the HEAD hash only when it
\* is not; a call for the same entry in the same context, whenever it is
\* made, returns the same string.
C11_StagingUriExact ==
    /\ [](stagingCall.entry # 0 =>
            LET e == releases[stagingCall.entry]
                commit == IF env.CODEBUILD_RESOLVED_SOURCE_VERSION # None
                          THEN env.CODEBUILD_RESOLVED_SOURCE_VERSION
                          ELSE head_commit
            IN  stagingCall.uri
                  = Fmt(env.INTERNAL_STAGING_REPO_URI) \o <<":">> \o e.version
                      \o <<"-">> \o StrLower(e.device) \o <<"-">> \o commit)
    /\ [][(stagingCall.entry # 0 /\ stagingCall'.entry = stagingCall.entry)
             => stagingCall'.uri = stagingCall.uri]_vars

\* the staging URI of a release whose device is stored in upper case was
\* derived, with the commit override set, after the clock moved
C11_Witness ==
    /\ stagingCall.entry = 1
    /\ tick = 2
    /\ releases[1].device = GPU
    /\ env.CODEBUILD_RESOLVED_SOURCE_VERSION = CommitA
    /\ env.INTERNAL_STAGING_REPO_URI = StagingRepo
    /\ stagingCall.uri = StagingRepo \o <<":","1",".","0",".","0","-","g","p","u","-","4","f","2","a","9","c","1">>

\* C13: published-tag derivation fails, returning no URI, for a device
\* without tag pattern: get_image_uris_for_dlc() for any device other than
\* GPU and INF2, get_image_uris_for_jumpstart() for any other than GPU and CPU.
C13_NoPatternNoUris ==
    /\ (urisCall.fn = "dlc"
          /\ StrUpper(releases[urisCall.entry].device) \notin {GPU, INF2})
        => (urisCall.result # "ok" /\ urisCall.uris = <<>>)
    /\ (urisCall.fn = "jumpstart"
          /\ StrUpper(releases[urisCall.entry].device) \notin {GPU, CPU})
        => (urisCall.result # "ok" /\ urisCall.uris = <<>>)

\* the JumpStart derivation failed on its assertion for an INF2 release
C13_Witness ==
    /\ urisCall.fn = "jumpstart"
    /\ releases[urisCall.entry].device = INF2
    /\ env.JS_ECR_REPO_URI = JsRepo
    /\ urisCall.result = "AssertionError"

(***************************************************************************)
(* Properties of URI parsing and of the registry requests                  *)
(***************************************************************************)
WordAlphabet ==
    {LowerChars[i] : i \in 1..26} \cup {UpperChars[i] : i \in 1..26}
        \cup {DigitChars[i] : i \in 1..10} \cup {"_"}

Over(s, alphabet) == \A i \in 1..Len(s) : s[i] \in alphabet

\* host, repository and tag are written in the pattern's alphabets
InAlphabets(b) ==
    /\ Over(b.host, WordAlphabet \cup {".", "-"})
    /\ Over(b.repo, WordAlphabet \cup {"-"})
    /\ Over(b.tag, WordAlphabet \cup {".", ":", "-"})

Recovered(b) ==
    /\ clientCall.result = "ok"
    /\ clientCall.parts.url = b.host
    /\ clientCall.parts.repo = b.repo
    /\ clientCall.parts.tag = b.tag
    /\ clientCall.parts.url_repo = b.host \o <<"/">> \o b.repo

SplitOfBuilt ==
    /\ clientCall.op = "split_ecr_image_uri"
    /\ built_from # NotBuilt

\* C14 as stated: for every host, repository and tag, splitting
\* host/repo:tag recovers url, repo, tag and url_repo exactly.
C14_EveryUriRoundTrips ==
    (SplitOfBuilt /\ built_from.sep = ":") => Recovered(built_from)

\* C14: splitting host/repo:tag (or host/repo@tag) recovers url, repo, tag
\* and url_repo exactly when the host is written in letters, digits,
\* underscore, dot and hyphen, the repository in letters, digits, underscore
\* and hyphen, and the tag in letters, digits, underscore, dot, colon and
\* hyphen; with any other host, repository or tag the split raises or gives
\* other parts than the URI was built from.
C14_UriRoundTripsInAlphabets ==
    SplitOfBuilt =>
        (InAlphabets(built_from) <=> Recovered(built_from))

\* a URI with a digest-like tag was split into the parts it was built from
C14_Witness ==
    /\ SplitOfBuilt
    /\ built_from = [host |-> EcrHost, repo |-> <<"h","f","-","t","g","i">>, sep |-> ":",
                     tag |-> <<"s","h","a","2","5","6",":","a","b","1","2">>]
    /\ clientCall.parts.tag = <<"s","h","a","2","5","6",":","a","b","1","2">>
    /\ clientCall.parts.aws_account_id = <<"1","2","3","4","5","6","7","8","9","0","1","2">>

\* the image id of the last existence check or scan lookup
SentImageId ==
    IF clientCall.op = "does_ecr_image_exist"
    THEN clientCall.request.imageIds[1]
    ELSE clientCall.request.imageId

RegistryLookup ==
    /\ clientCall.op \in {"does_ecr_image_exist", "_get_ecr_scan_results"}
    /\ clientCall.request # NoRequest

Contains(s, sub) ==
    \E i \in 0..(Len(s) - Len(sub)) :
        \A j \in 1..Len(sub) : s[i + j] = sub[j]

\* C15: in existence checks and scan lookups the identifier after the
\* separator is sent as a digest if and only if it contains sha256, and as a
\* tag otherwise; never as both and never as neither.
C15_DigestIffSha256 ==
    RegistryLookup =>
        LET id == SentImageId
        IN  /\ DOMAIN id \in {{"imageDigest"}, {"imageTag"}}
            /\ (built_from # NotBuilt /\ InAlphabets(built_from)) =>
                  /\ Contains(built_from.tag, <<"s","h","a","2","5","6">>)
                        <=> DOMAIN id = {"imageDigest"}
                  /\ \A key \in DOMAIN id : id[key] = built_from.tag

\* an identifier that holds sha256 in its middle was sent as a digest by the
\* scan lookup
C15_Witness ==
    /\ clientCall.op = "_get_ecr_scan_results"
    /\ clientCall.request # NoRequest
    /\ built_from.tag = <<"v","1","-","s","h","a","2","5","6">>
    /\ clientCall.request.imageId = [imageDigest |-> <<"v","1","-","s","h","a","2","5","6">>]

\* the text is: host characters, a slash, repository characters, a colon or
\* an at sign, tag characters (and possibly one newline that ends it)
HasUriPattern(s) ==
    \E text \in {s} \cup {SubSeq(s, 1, Len(s) - 1) :
                            n \in {m \in {Len(s)} : m > 0 /\ s[m] = "\n"}} :
    \E a \in 1..Len(text) : \E b \in (a + 1)..Len(text) :
        /\ text[a] = "/"
        /\ text[b] \in {":", "@"}
        /\ Over(SubSeq(text, 1, a - 1), WordAlphabet \cup {".", "-"})
        /\ Over(SubSeq(text, a + 1, b - 1), WordAlphabet \cup {"-"})
        /\ Over(SubSeq(text, b + 1, Len(text)),
                WordAlphabet \cup {".", ":", "-"})

\* C16: a URI that does not match the image-URI pattern makes every
\* operation that parses it fail (split, pull, push, tag, credential fetch,
\* existence check, scan lookup); does_ecr_image_exist raises for it and
\* never answers that the image does not exist.
C16_MalformedUriIsFatal ==
    (clientCall.op # "none" /\ ~HasUriPattern(image_uri)) =>
        /\ clientCall.result \notin {"ok", "True", "False"}
        /\ clientCall.op \in {"split_ecr_image_uri", "pull", "push",
                               "get_ecr_credentials", "does_ecr_image_exist",
                               "_get_ecr_scan_results"}
              => clientCall.result = "AssertionError"
        /\ registry = {StagedImage}
        /\ Cardinality(local) = 1

\* the existence check raised for the staging URI of a context without
\* staging repository
C16_Witness ==
    /\ clientCall.op = "does_ecr_image_exist"
    /\ image_uri = <<"N","o","n","e",":","1",".","0",".","0","-","g","p","u","-","4","f","2","a","9","c","1">>
    /\ clientCall.result = "AssertionError"


(***************************************************************************)
(* Properties of the phases                                                *)
(***************************************************************************)
\* the registry holds an image under the URI
InRegistry(uri) == does_ecr_image_exist(uri, registry).result = "True"

\* the only call logged for entry k is the existence check
OnlyChecked(lg, k) ==
    \A i \in 1..Len(lg) : lg[i].entry = k => lg[i].op = "does_ecr_image_exist"

\* the existence check of fn answered True for the entry of the i-th call
Skipped(fn, i) ==
    /\ log[i].fn = fn
    /\ log[i].op = "does_ecr_image_exist"
    /\ log[i].result = "True"

\* the step ended in the next entry, or in the failure of the check itself
\* for a reason outside the program
ContinuesOrCheckFailed ==
    \/ phase' = NextEntry
    \/ phase' = Failed /\ log'[Len(log')].result = "ExternalError"

\* C17: in the BUILD phase of both entrypoints, for an entry whose staging
\* image is in the registry already, the run makes no source checkout, no
\* engine build, no credential fetch, no login and no push (its only call for
\* the entry is the existence check), changes neither the registry nor the
\* local engine, and goes on with the next entry.
C17_ExistingStagingImageSkipsBuild ==
    /\ [](\A i \in 1..Len(log) :
             Skipped("build", i) => /\ OnlyChecked(log, log[i].entry)
                                    /\ phase.k > log[i].entry)
    /\ [][(At("build", "check") /\ InRegistry(StagingUri(phase.k))) =>
             /\ OnlyChecked(log', phase.k)
             /\ registry' = registry
             /\ local' = local
             /\ ContinuesOrCheckFailed]_vars

\* a second BUILD run skipped an entry the first run had built and pushed,
\* and went on
C17_Witness ==
    /\ run = 2
    /\ phase.fn = "build"
    /\ \E i \in 1..Len(log) :
          /\ Skipped("build", i)
          /\ [entry |-> log[i].entry, step |-> "build", run |-> 1] \in completed
          /\ phase.k > log[i].entry

\* C18: in the RELEASE phase of both entrypoints, for an entry whose released
\* image is in the registry already, the run makes no login, prune, pull, tag,
\* push, parameter write or pipeline start (its only call for the entry is
\* the existence check) and goes on with the next entry; so an entry that a
\* RELEASE run completed gets no other call in any later RELEASE run.
C18_ExistingReleasedImageSkipsRelease ==
    /\ [](\A i \in 1..Len(log) :
             Skipped("release", i) => /\ OnlyChecked(log, log[i].entry)
                                      /\ phase.k > log[i].entry)
    /\ [](\A c \in completed :
             (c.step = "entry" /\ c.run < run /\ phase.fn = "release")
                => OnlyChecked(log, c.entry))
    /\ [][(At("release", "check") /\ InRegistry(ReleasedUri(phase.k))) =>
             /\ OnlyChecked(log', phase.k)
             /\ registry' = registry
             /\ local' = local
             /\ parameters' = parameters
             /\ executions' = executions
             /\ ContinuesOrCheckFailed]_vars

\* a second RELEASE run skipped an entry the first run had completed, and
\* went on
C18_Witness ==
    /\ run = 2
    /\ phase.fn = "release"
    /\ \E i \in 1..Len(log) :
          /\ Skipped("release", i)
          /\ [entry |-> log[i].entry, step |-> "entry", run |-> 1] \in completed
          /\ phase.k > log[i].entry


\* the step of release() in tgi.py that a logged call belongs to
StepOf(c) ==
    IF c.fn = "release"
    THEN CASE c.op = "does_ecr_image_exist" -> "check"
           [] c.op \in {"get_ecr_credentials", "login"} -> "login"
           [] c.op = "prune_all" -> "prune"
           [] c.op = "pull" -> "pull"
           [] c.op = "tag" -> "tag released"
           [] c.op = "push" -> "push released"
           [] OTHER -> "other"
    ELSE IF c.fn = "DlcPipeline" THEN "stage_image"
    ELSE c.fn

\* the steps of a sequence of calls, in order, each run of calls of one step
\* counted once
RECURSIVE StepsOf(_)
StepsOf(calls) ==
    IF calls = <<>> THEN <<>>
    ELSE IF Len(calls) > 1 /\ StepOf(calls[1]) = StepOf(calls[2])
    THEN StepsOf(Tail(calls))
    ELSE <<StepOf(calls[1])>> \o StepsOf(Tail(calls))

\* the calls the run made for entry k, in order
CallsOf(k) == SelectSeq(log, LAMBDA c : c.entry = k)

ReleaseOrder ==
    << "check", "login", "prune", "pull", "stage_image", "set_parameters",
       "start_pipeline", "login", "tag released", "push released" >>

IsPrefix(s, t) == Len(s) <= Len(t) /\ SubSeq(t, 1, Len(s)) = s

\* C19: in the RELEASE phase of tgi.py the calls made for an entry follow
\* the order: existence check, registry login, prune of the local images,
\* pull of the staging image, stage_image, set_parameters, start_pipeline
\* (trigger and polls), login, tag as released, push; every call but the last
\* of the run returned; the pull comes directly after a prune; and the
\* released URI is pushed only after start_pipeline returned.
C19_ReleaseStepsInOrder ==
    (IsScript("tgi") /\ phase.fn = "release") =>
        /\ \A k \in 1..Len(releases) :
              IsPrefix(StepsOf(CallsOf(k)), ReleaseOrder)
        /\ \A i \in 1..(Len(log) - 1) : Succeeded(log[i].result)
        /\ \A i \in 1..Len(log) :
              /\ log[i].op = "pull" =>
                    /\ i > 1
                    /\ log[i - 1].op = "prune_all"
                    /\ log[i - 1].entry = log[i].entry
              /\ StepOf(log[i]) = "push released" =>
                    \E j \in 1..(i - 1) :
                       /\ log[j].entry = log[i].entry
                       /\ log[j].fn = "start_pipeline"
                       /\ log[j].op = "return"

\* a GPU entry went through every step: the pipeline was started and polled
\* until it had succeeded, then the released URI was pushed
C19_Witness ==
    /\ IsScript("tgi")
    /\ \E i \in 1..Len(log) :
          /\ StepOf(log[i]) = "push released"
          /\ log[i].result = "ok"
          /\ StepsOf(CallsOf(log[i].entry)) = ReleaseOrder
          /\ \E j \in 1..(i - 1) :
                /\ log[j].entry = log[i].entry
                /\ log[j].op = "get_pipeline_status"
                /\ log[j].arg = "IN_PROGRESS"


\* the devices get_image_uris_for_dlc and get_image_uris_for_jumpstart have a
\* tag pattern for
SupportedFor(fn, config) ==
    IF fn = "dlc"
    THEN StrLower(config.device) \in {<<"g","p","u">>, <<"i","n","f","2">>}
    ELSE StrLower(config.device) \in {<<"g","p","u">>, <<"c","p","u">>}

\* the position of the last colon of a text, 0 when it has none
LastColon(s) ==
    LET colons == {i \in 1..Len(s) : s[i] = ":"}
    IN  IF colons = {} THEN 0
        ELSE CHOOSE i \in colons : \A j \in colons : j <= i

RepositoryOf(uri) == SubSeq(uri, 1, LastColon(uri) - 1)

TagOf(uri) == SubSeq(uri, LastColon(uri) + 1, Len(uri))

\* the local time of the clock readings, as '%Y-%m-%d-%H-%M-%S' prints it
Timestamps == << <<"2","0","2","4","-","0","1","-","0","5","-","0","9","-","3","0","-","5","9">>, <<"2","0","2","4","-","0","1","-","0","5","-","0","9","-","3","1","-","0","0">> >>

\* the result is [base, dated]: one repository, the dated tag being the
\* base tag, a dash and the time of the call
IsBaseAndDated(call) ==
    /\ call.result = "ok"
    /\ Len(call.uris) = 2
    /\ LastColon(call.uris[1]) > 0
    /\ RepositoryOf(call.uris[2]) = RepositoryOf(call.uris[1])
    /\ TagOf(call.uris[2]) =
          TagOf(call.uris[1]) \o <<"-">> \o Timestamps[call.at]

\* the image the registry holds under a URI, None when it holds none
ImageAt(uri) ==
    LET parts == split_ecr_image_uri(uri)
        held  == IF parts.result = "ok"
                 THEN {i \in registry : /\ i.account = parts.aws_account_id
                                        /\ i.repo = parts.repo
                                        /\ i.tag = parts.tag}
                 ELSE {}
    IN  IF held = {} THEN None ELSE (CHOOSE i \in held : TRUE).image

\* the run pushed the URI for the entry
PushedBy(k, uri) ==
    \E i \in 1..Len(log) :
        /\ log[i].op = "push"
        /\ log[i].entry = k
        /\ log[i].uri = uri
        /\ log[i].result = "ok"

\* every tag call the run made for the URIs of the call has the staging URI
\* of the entry as its source
TaggedFromStaged(call) ==
    \A i \in 1..Len(log) :
        (log[i].op = "tag" /\ log[i].entry = call.entry
             /\ \E n \in 1..Len(call.uris) : log[i].uri = call.uris[n])
          => log[i].arg = StagingUri(call.entry)

\* once both URIs are pushed they name one image, the staged one
OneImageOncePushed(call) ==
    (PushedBy(call.entry, call.uris[1]) /\ PushedBy(call.entry, call.uris[2]))
       => /\ ImageAt(call.uris[1]) # None
          /\ ImageAt(call.uris[1]) = ImageAt(call.uris[2])
          /\ ImageAt(call.uris[1]) = ImageAt(StagingUri(call.entry))

\* a derivation of the published URIs was made for an entry of a device it
\* has a pattern for
DerivedForSupported ==
    /\ urisCall.fn # "none"
    /\ urisCall.entry \in 1..Len(releases)
    /\ SupportedFor(urisCall.fn, releases[urisCall.entry])

\* C12 as stated: for a supported device both derivations return [base,
\* dated], and both URIs name the staged image once pushed.
C12_SupportedDeviceTwoUris ==
    DerivedForSupported =>
        /\ IsBaseAndDated(urisCall)
        /\ TaggedFromStaged(urisCall)
        /\ OneImageOncePushed(urisCall)

\* C12: for a supported device get_image_uris_for_dlc returns [base, dated],
\* and get_image_uris_for_jumpstart does when JS_ECR_REPO_URI is set and
\* raises TypeError when it is not; the two URIs are in one repository, the
\* dated tag is the base tag, a dash and the timestamp; stage_image and the
\* JumpStart loop tag both from the staging URI, and once both are pushed they
\* name the image the staging URI names.
C12_TwoUrisUnlessJumpstartPrefixUnset ==
    DerivedForSupported =>
        IF urisCall.fn = "jumpstart" /\ env.JS_ECR_REPO_URI = None
        THEN urisCall.result = "TypeError" /\ urisCall.uris = <<>>
        ELSE /\ IsBaseAndDated(urisCall)
             /\ TaggedFromStaged(urisCall)
             /\ OneImageOncePushed(urisCall)

\* the JumpStart URIs of a CPU entry were both pushed
C12_Witness ==
    /\ DerivedForSupported
    /\ urisCall.fn = "jumpstart"
    /\ IsBaseAndDated(urisCall)
    /\ PushedBy(urisCall.entry, urisCall.uris[1])
    /\ PushedBy(urisCall.entry, urisCall.uris[2])
    /\ ImageAt(urisCall.uris[2]) # None


\* the publish steps of an entry: the downstream sequence in tgi.py, the
\* JumpStart pushes in tgi-llamacpp.py
PublishSteps ==
    IF IsScript("tgi")
    THEN {"stage_image", "set_parameters", "start_pipeline"}
    ELSE {"jumpstart"}

\* every publish step of entry k has completed in some run
Published(k) ==
    \A s \in PublishSteps :
        \E c \in completed : c.entry = k /\ c.step = s

\* C20: over RELEASE runs that may fail at any step and are run again, the
\* released image of an entry is in the registry only if every publish step
\* of the entry has completed in some run, so the existence check of
\* release() skips no entry that has an unfinished publish step.
C20_ReleasedOnlyWhenPublished ==
    (pc = "running" /\ phase.fn = "release") =>
        /\ \A k \in 1..Len(releases) :
              InRegistry(ReleasedUri(k)) => Published(k)
        /\ \A i \in 1..Len(log) :
              Skipped("release", i) => Published(log[i].entry)

\* tgi-llamacpp.py: a second RELEASE run skipped an entry whose JumpStart
\* pushes no run has completed
C20_Witness ==
    /\ IsScript("tgi-llamacpp")
    /\ run = 2
    /\ \E i \in 1..Len(log) :
          /\ Skipped("release", i)
          /\ ~Published(log[i].entry)
          /\ phase.k > log[i].entry


(***************************************************************************)
(* Properties of DlcPipeline                                               *)
(***************************************************************************)
\* the calls made through the cached session self.dlc_aws
PrivilegedOps ==
    {"get_ecr_credentials", "set_parameter", "start_pipeline_execution",
     "get_pipeline_status"}

Called == recent # <<>>

LastCall == recent[Len(recent)]

\* the call before the last one was the refresh check
AfterRefreshCheck ==
    /\ Len(recent) >= 2
    /\ recent[Len(recent) - 1].op = "_refresh_credentials"

\* C21: every call through the cached session (the credentials of
\* stage_image, every parameter write, the pipeline start, every status
\* poll) comes right after the refresh check, and the session it uses was
\* made or refreshed at most 1800 seconds before
C21_PrivilegedCallsAfterRefreshCheck ==
    (Called /\ LastCall.op \in PrivilegedOps) =>
       /\ AfterRefreshCheck
       /\ LastCall.age <= DEFAULT_CRED_REFRESH_INTERVAL_IN_SECONDS

\* a parameter was written through a session older than 1800 seconds, with
\* no refresh check before the write
C21_Witness ==
    /\ Called
    /\ LastCall.op = "set_parameter"
    /\ LastCall.result = "ok"
    /\ LastCall.age > DEFAULT_CRED_REFRESH_INTERVAL_IN_SECONDS
    /\ ~AfterRefreshCheck


\* the pipeline execution and the status check are both switched on
Checked ==
    /\ Enabled(env.DLC_ENABLE_PIPELINE_EXECUTION)
    /\ Enabled(env.DLC_ENABLE_PIPELINE_STATUS_CHECK)

Returned == At("start_pipeline", "done")

Polling ==
    /\ pc = "running"
    /\ phase.fn = "start_pipeline"
    /\ phase.at \in {"sleep", "refresh", "poll"}

\* the last call was a status poll that was answered
Answered ==
    /\ Called
    /\ LastCall.op = "get_pipeline_status"
    /\ LastCall.result # "ExternalError"

\* C22: with the execution and the status check switched on, start_pipeline
\* returns only after a poll that answered Succeeded (SUCCESSFUL); InProgress
\* is IN_PROGRESS and the only answer the polling goes on after; every other
\* answer is UNSUCCESSFUL, ends the polling and makes start_pipeline fail
C22_ReturnsOnlyWhenSuccessful ==
    /\ (Checked /\ Returned) =>
          /\ Answered
          /\ LastCall.arg = "Succeeded"
          /\ pipeline.status = "SUCCESSFUL"
    /\ Answered =>
          /\ LastCall.result =
                (IF LastCall.arg = "InProgress" THEN "IN_PROGRESS"
                 ELSE IF LastCall.arg = "Succeeded" THEN "SUCCESSFUL"
                 ELSE "UNSUCCESSFUL")
          /\ pipeline.status = LastCall.result
          /\ (LastCall.result = "IN_PROGRESS") <=> Polling
          /\ (LastCall.result = "SUCCESSFUL") <=> Returned
          /\ (LastCall.result = "UNSUCCESSFUL") <=> (phase.at = "failed")
    /\ Polling => pipeline.status = "IN_PROGRESS"

\* start_pipeline returned after a second poll, the first one having answered
\* InProgress
C22_Witness ==
    /\ Checked
    /\ Returned
    /\ Answered
    /\ Len(recent) = RecentCalls
    /\ recent[Len(recent) - 3].op = "get_pipeline_status"
    /\ recent[Len(recent) - 3].result = "IN_PROGRESS"

\* C23: every status poll, the first one too, comes after one sleep of 60
\* seconds and then one refresh check, in that order, the sleep following
\* the pipeline start or the poll before; with the status check switched
\* off there is no sleep and no poll at all
C23_SleepThenRefreshThenPoll ==
    /\ (Called /\ LastCall.op = "get_pipeline_status") =>
          /\ Len(recent) >= 4
          /\ recent[Len(recent) - 1].op = "_refresh_credentials"
          /\ recent[Len(recent) - 2].op = "sleep"
          /\ recent[Len(recent) - 2].arg = 60
          /\ recent[Len(recent) - 1].age = recent[Len(recent) - 2].age + 60
          /\ recent[Len(recent) - 3].op
                \in {"start_pipeline_execution", "get_pipeline_status"}
    /\ ~Enabled(env.DLC_ENABLE_PIPELINE_STATUS_CHECK) =>
          \A i \in 1..Len(recent) :
             recent[i].op \notin {"sleep", "get_pipeline_status"}

\* the first poll after the pipeline start was made
C23_Witness ==
    /\ Called
    /\ LastCall.op = "get_pipeline_status"
    /\ Len(recent) >= 4
    /\ recent[Len(recent) - 3].op = "start_pipeline_execution"

\* the status check is switched off and start_pipeline returned after the
\* start
C23_WitnessUnchecked ==
    /\ Enabled(env.DLC_ENABLE_PIPELINE_EXECUTION)
    /\ ~Enabled(env.DLC_ENABLE_PIPELINE_STATUS_CHECK)
    /\ Returned
    /\ Called
    /\ LastCall.op = "start_pipeline_execution"

Ended == execution \in FinalStatuses

Terminated == pc = "running" /\ phase.at \in {"done", "failed"}

\* C24: the loop has no bound of its own.  Once the execution has ended,
\* start_pipeline ends too (it returns or raises); while the execution is in
\* progress start_pipeline ends only when a call raises; and when the
\* execution stays in progress and no call raises, the polls never stop
C24_PollsUntilTheExecutionEnds ==
    /\ Ended ~> Terminated
    /\ []((Checked /\ execution = "InProgress" /\ Terminated) =>
             (phase.at = "failed" /\ LastCall.result = "ExternalError"))
    /\ (<>[](Checked /\ execution = "InProgress" /\ phase.at # "failed"))
          => []<><<PollStatus>>_vars

\* the loop made thirty polls that answered InProgress and then refreshed
\* the session, with the execution still in progress
C24_Witness ==
    /\ Checked
    /\ Polling
    /\ execution = "InProgress"
    /\ Called
    /\ LastCall.op = "_refresh_credentials"
    /\ LastCall.result = "refreshed"
    /\ LastCall.age = 31 * DEFAULT_WAIT_INTERVAL_IN_SECONDS


(***************************************************************************)
(* Properties of test(configs)                                             *)
(***************************************************************************)
LastLogged == log[Len(log)]

IsScanPoll(c) == c.op = "is_ecr_image_scan_pending"

IsFindingsFetch(c) == c.op = "get_image_scan_findings"

\* the last poll said that the scan is pending (or that there is none)
LastPollPending ==
    /\ log # <<>>
    /\ IsScanPoll(LastLogged)
    /\ LastLogged.result = "True"

\* the wait for the scan ended with the assertion on the time waited
ScanTimedOut ==
    /\ Len(log) >= 2
    /\ LastLogged.op = "raise"
    /\ LastLogged.result = "AssertionError"
    /\ IsScanPoll(log[Len(log) - 1])
    /\ log[Len(log) - 1].result = "True"

\* C25: in test() of tgi.py the wait for a pending scan (status PENDING, or
\* no scan) goes on only while at most 900 seconds have passed since the
\* test harness ended; a poll that finds the scan pending later than that
\* fails the phase with the assertion error, and the findings of that entry
\* are never fetched
C25_PendingScanTimesOut ==
    /\ LastPollPending =>
          /\ At("test", "scan")
          /\ since_start <= ECR_SCAN_TIMEOUT_IN_SECONDS
    /\ ScanTimedOut =>
          /\ since_start > ECR_SCAN_TIMEOUT_IN_SECONDS
          /\ phase.fn = "test"
          /\ phase.at = "failed"
          /\ \A i \in 1..Len(log) :
                ~(IsFindingsFetch(log[i])
                  /\ log[i].entry = LastLogged.entry)
    /\ \A i \in 1..Len(log) :
          (IsScanPoll(log[i]) /\ log[i].result = "True") <=>
             (IsScanPoll(log[i]) /\ Succeeded(log[i].result)
              /\ log[i].arg \in {"PENDING", "ScanNotFoundException"})

\* the scan was found pending twice in time and then once too late
C25_Witness ==
    /\ IsScript("tgi")
    /\ ScanTimedOut
    /\ Len(log) >= 4
    /\ IsScanPoll(log[Len(log) - 2])
    /\ IsScanPoll(log[Len(log) - 3])
    /\ log[Len(log) - 3].arg = "ScanNotFoundException"
    /\ log[Len(log) - 1].arg = "PENDING"

\* the test harness ran for the i-th call and ended with another exit code
\* than 0
HarnessFailed(i) ==
    /\ log[i].op = "pytest"
    /\ log[i].result = "ok"
    /\ log[i].arg # 0

\* C26: in test() of both scripts an exit code of the test harness other
\* than 0 fails the phase at once: the assertion error is the next and last
\* thing that happens, the scan of that entry is not polled, its findings
\* are not fetched, and no later entry is tested
C26_FailedHarnessEndsTheRun ==
    \A i \in 1..Len(log) :
       HarnessFailed(i) =>
          /\ Len(log) = i + 1
          /\ log[i + 1].op = "raise"
          /\ log[i + 1].result = "AssertionError"
          /\ phase.fn = "test"
          /\ phase.at = "failed"
          /\ phase.k = log[i].entry
          /\ \A j \in 1..Len(log) :
                /\ ~(log[j].entry = log[i].entry
                     /\ (IsScanPoll(log[j]) \/ IsFindingsFetch(log[j])))
                /\ ~(log[j].fn = "test" /\ log[j].entry > log[i].entry)

\* the harness passed for the first entry and failed for the second
C26_Witness ==
    \E i \in 1..Len(log) :
       /\ HarnessFailed(i)
       /\ log[i].entry = 2
       /\ \E j \in 1..(i - 1) : log[j].op = "pytest" /\ log[j].entry = 1

\* the findings of all the pages
AllFindings(pages) ==
    UNION {{pages[p][j] : j \in 1..Len(pages[p])} : p \in 1..Len(pages)}

\* the CRITICAL findings that are not in ignore_vulnerabilities
OpenCritical(findings) ==
    {f \in findings :
        /\ f.severity = "CRITICAL"
        /\ \A n \in 1..Len(ignore_vulnerabilities(configs)) :
              f.title # ignore_vulnerabilities(configs)[n]}

\* the findings were fetched with the i-th call and the entry passed
FindingsPassed(i) ==
    /\ IsFindingsFetch(log[i])
    /\ log[i].result = "ok"
    /\ (i < Len(log) => log[i + 1].op # "raise")

\* the findings were fetched with the i-th call and the entry failed on them
FindingsFailed(i) ==
    /\ IsFindingsFetch(log[i])
    /\ log[i].result = "ok"
    /\ i < Len(log)
    /\ log[i + 1].op = "raise"

\* C27: test() of tgi.py passes for an entry only if none of ALL the
\* findings the registry has for the staging image, on however many pages,
\* is CRITICAL and not ignored; it fails, naming them, if there is one; and
\* it never fails on other findings
C27_PassesOnlyWithoutOpenCritical ==
    \A i \in 1..Len(log) :
       /\ FindingsPassed(i) => OpenCritical(AllFindings(log[i].arg)) = {}
       /\ FindingsFailed(i) =>
             /\ OpenCritical(AllFindings(log[i].arg)) # {}
             /\ {log[i + 1].uri[n] : n \in 1..Len(log[i + 1].uri)}
                   \subseteq {f.title :
                                f \in OpenCritical(AllFindings(log[i].arg))}
             /\ phase.at = "failed"

\* an entry passed although page seven has a CRITICAL finding that is not
\* ignored
C27_Witness ==
    \E i \in 1..Len(log) :
       /\ FindingsPassed(i)
       /\ Len(log[i].arg) > 1 + max_pagination
       /\ OpenCritical(AllFindings(log[i].arg)) # {}
       /\ [entry |-> log[i].entry, step |-> "test", run |-> run]
             \in completed


(***************************************************************************)
(* Properties of a run                                                     *)
(***************************************************************************)
\* the loop a call belongs to
LoopOf(c) ==
    IF c.fn \in {"build", "test"} THEN c.fn ELSE "release"

\* the last parameter write of the run for the name of the i-th call
LastWrite(i) ==
    \A j \in (i + 1)..Len(log) :
       ~(log[j].op = "set_parameter" /\ log[j].result = "ok"
         /\ log[j].uri = log[i].uri)

\* C28: the entries are gone through one at a time, in the order of the
\* list, without retry and without rollback: a call that failed is the last
\* call of the run (so a failed build is followed by no login and no push,
\* and no later entry is begun), the calls of a loop come in the order of
\* the entries, and what was pushed, written and started before the failure
\* stays as it is
C28_OneAtATimeNoRetryNoRollback ==
    /\ \A i \in 1..(Len(log) - 1) : Succeeded(log[i].result)
    /\ (log # <<>> /\ ~Succeeded(LastLogged.result)) =>
          /\ phase.at = "failed"
          /\ phase.k = LastLogged.entry
    /\ \A i, j \in 1..Len(log) :
          (i < j /\ LoopOf(log[i]) = LoopOf(log[j])) =>
             log[i].entry <= log[j].entry
    /\ \A i \in 1..Len(log) :
          /\ (log[i].op = "push" /\ log[i].result = "ok") =>
                ImageAt(log[i].uri) # None
          /\ (log[i].op = "set_parameter" /\ log[i].result = "ok"
              /\ LastWrite(i)) =>
                [name |-> log[i].uri, value |-> log[i].arg] \in parameters
    /\ Len(SelectSeq(log, LAMBDA c : c.op = "start_pipeline_execution"
                                        /\ c.result = "ok"))
          = Len(executions)

\* the build of the second entry failed after the image of the first was
\* pushed: the run has ended and the first image is in the registry
C28_Witness ==
    /\ pc = "running"
    /\ phase.at = "failed"
    /\ log # <<>>
    /\ LastLogged.op = "build"
    /\ LastLogged.entry = 2
    /\ ~Succeeded(LastLogged.result)
    /\ PushedBy(1, StagingUri(1))
    /\ ImageAt(StagingUri(1)) = BuiltImage(1, run)

\* the functions whose calls a mode runs
PhaseFunctions(mode) ==
    IF mode = <<"P","R">> THEN {"build", "test"}
    ELSE IF mode = <<"B","U","I","L","D">> THEN {"build"}
    ELSE IF mode = <<"T","E","S","T">> THEN {"test"}
    ELSE IF mode = <<"R","E","L","E","A","S","E">>
    THEN {"release", "DlcPipeline", "stage_image", "set_parameters",
          "start_pipeline"}
    ELSE {}

\* the function that was run last went through every entry
WentThroughAll ==
    \A k \in 1..Len(releases) :
       \E i \in 1..Len(log) : log[i].entry = k /\ LoopOf(log[i]) = phase.fn

\* C29: the entrypoint runs the phase that MODE names, exactly, over the
\* loaded entries: PR, BUILD, TEST and RELEASE make calls of their own
\* functions only and end after every entry; any other MODE, an unset one
\* too, ends in ValueError with no call made
C29_ModeSelectsThePhase ==
    /\ \A i \in 1..Len(log) : log[i].fn \in PhaseFunctions(env.MODE)
    /\ pc = "running" =>
          IF env.MODE \in Modes
          THEN /\ phase.at # "ValueError"
               /\ phase.fn \in PhaseFunctions(env.MODE)
               /\ (phase.at = "done"
                   /\ (env.MODE = <<"P","R">> => phase.fn = "test"))
                     => WentThroughAll
          ELSE /\ phase = [fn |-> "none", k |-> 0, at |-> "ValueError"]
               /\ log = <<>>
               /\ completed = {}

\* MODE is build in small letters: the run has ended in ValueError
C29_Witness ==
    /\ pc = "running"
    /\ env.MODE = <<"b","u","i","l","d">>
    /\ phase.at = "ValueError"
    /\ releases # <<>>

\* a later entry is built only after the entry before it was tested
TestedBeforeNextIsBuilt ==
    \A i \in 1..Len(log) :
       (log[i].fn = "build" /\ log[i].entry > 1) =>
          \E j \in 1..(i - 1) :
             log[j].fn = "test" /\ log[j].entry = log[i].entry - 1

\* no test call of an entry comes before a build call of that entry
BuiltBeforeTested ==
    \A i, j \in 1..Len(log) :
       (log[i].fn = "build" /\ log[j].fn = "test"
        /\ log[i].entry = log[j].entry) => i < j

\* C30: in PR mode the build of an entry is over before its test begins,
\* and the entries are handled one after another, entry K built and tested
\* before entry K+1 is built
C30_EachEntryBuiltThenTested ==
    env.MODE = <<"P","R">> => (BuiltBeforeTested /\ TestedBeforeNextIsBuilt)

\* C30, as the code has it: in PR mode build() goes through every entry
\* before test() begins: every build call comes before every test call,
\* and a test is run only after the build loop has checked every entry
C30_AllBuiltBeforeAnyTested ==
    env.MODE = <<"P","R">> =>
       /\ \A i, j \in 1..Len(log) :
             (log[i].fn = "build" /\ log[j].fn = "test") => i < j
       /\ (\E j \in 1..Len(log) : log[j].fn = "test") =>
             \A k \in 1..Len(releases) :
                \E i \in 1..Len(log) :
                   /\ log[i].fn = "build"
                   /\ log[i].entry = k
                   /\ log[i].op = "does_ecr_image_exist"

\* in PR mode the second entry was built and pushed before the first was
\* tested
C30_Witness ==
    /\ env.MODE = <<"P","R">>
    /\ \E i, j \in 1..Len(log) :
          /\ i < j
          /\ log[i].op = "push"
          /\ log[i].fn = "build"
          /\ log[i].entry = 2
          /\ log[i].result = "ok"
          /\ log[j].op = "pytest"
          /\ log[j].entry = 1


(***************************************************************************)
(* Properties of the methods of DlcPipeline                                *)
(***************************************************************************)
\* the URIs stage_image publishes to
DlcUris == get_image_uris_for_dlc(Config, env, Clock[tick]).uris

\* the calls stage_image has made on the engine
StageCalls == SelectSeq(log, LAMBDA c : c.fn = "stage_image")

\* one login for the first URI, then tag and push of every URI in turn
StageCallsInOrder(uris) ==
    <<[op |-> "login", uri |-> uris[1], arg |-> None]>>
    \o [i \in 1..(2 * Len(uris)) |->
          IF i % 2 = 1
          THEN [op |-> "tag", uri |-> uris[(i + 1) \div 2],
                arg |-> StagingUri(1)]
          ELSE [op |-> "push", uri |-> uris[i \div 2], arg |-> None]]

IsPrefixOf(s, t) ==
    /\ Len(s) <= Len(t)
    /\ \A i \in 1..Len(s) : s[i] = t[i]

\* C31: stage_image logs in once, with the credentials the assumed-role
\* session gave for the first published URI, and only then tags the staged
\* image to the base URI and pushes it, then to the dated URI and pushes
\* it: the tag of a URI comes before its push
C31_StageImageLogsInOnceThenTagsAndPushes ==
    /\ At("stage_image", "publish") =>
          /\ pipeline.dlc_aws = "session"
          /\ LastCall.op = "get_ecr_credentials"
          /\ LastCall.fn = "stage_image"
          /\ LastCall.arg = DlcUris[1]
          /\ LastCall.result = "ok"
          /\ log = <<>>
    /\ StageCalls # <<>> =>
          /\ Len(DlcUris) = 2
          /\ IsPrefixOf(DlcUris[1], DlcUris[2])
          /\ DlcUris[1] # DlcUris[2]
          /\ IsPrefixOf([i \in 1..Len(StageCalls) |->
                           [op |-> StageCalls[i].op, uri |-> StageCalls[i].uri,
                            arg |-> StageCalls[i].arg]],
                        StageCallsInOrder(DlcUris))
          /\ \A i \in 1..(Len(StageCalls) - 1) : StageCalls[i].result = "ok"
          /\ Len(SelectSeq(StageCalls, LAMBDA c : c.op = "login")) = 1
          /\ Len(recent) = 2 =>
                /\ recent[1].op = "_refresh_credentials"
                /\ recent[1].result = "refreshed"
                /\ recent[2].op = "get_ecr_credentials"
                /\ recent[2].arg = DlcUris[1]
                /\ recent[2].result = "ok"

\* stage_image has returned: a login and both URIs tagged and pushed, and
\* both are in the registry
C31_Witness ==
    /\ At("set_parameters", "parameters")
    /\ phase.k = 1
    /\ Len(StageCalls) = 5
    /\ \A i \in 1..5 : StageCalls[i].result = "ok"
    /\ StageCalls[4].op = "tag"
    /\ StageCalls[5].op = "push"
    /\ StageCalls[5].uri = DlcUris[2]
    /\ ImageAt(DlcUris[1]) # None
    /\ ImageAt(DlcUris[2]) # None


\* the parameters of the two devices that have a mapping
GpuParameters ==
    {"/huggingface-pytorch-tgi/gpu/tgi-version",
     "/huggingface-pytorch-tgi/gpu/os-version",
     "/huggingface-pytorch-tgi/gpu/cuda-version",
     "/huggingface-pytorch-tgi/gpu/python-version",
     "/huggingface-pytorch-tgi/gpu/pytorch-version"}

NeuronxParameters ==
    {"/huggingface-pytorch-tgi/neuronx/tgi-optimum-version",
     "/huggingface-pytorch-tgi/neuronx/os-version",
     "/huggingface-pytorch-tgi/neuronx/python-version",
     "/huggingface-pytorch-tgi/neuronx/pytorch-version"}

DeviceIs(device) == StrLower(Config.device) = StrLower(device)

\* the names a call of set_parameters may write for the release
NamesOfDevice ==
    IF DeviceIs(GPU) THEN GpuParameters
    ELSE IF DeviceIs(INF2) THEN NeuronxParameters
    ELSE {}

\* the writes of the call of set_parameters that is the n-th call made
WritesOf(n) ==
    SelectSeq(log, LAMBDA c : c.op = "set_parameter" /\ c.entry = n)

MadeBy(fn) == {i \in 1..Len(log) : log[i].fn = fn}

\* C32, in every state: set_parameters writes the five gpu parameters (the
\* CUDA version among them) for GPU and the four neuronx parameters (none
\* for CUDA) for INF2, each name once in a call; for any other device it
\* raises with no parameter written; start_pipeline, with the execution
\* enabled, raises for a device without a pipeline name, no pipeline started
ParametersByDevice ==
    /\ \A i \in MadeBy("set_parameters") :
          /\ log[i].op \in {"set_parameter", "return", "raise"}
          /\ log[i].op = "set_parameter" => log[i].uri \in NamesOfDevice
          /\ log[i].op = "raise" =>
                /\ NamesOfDevice = {}
                /\ log[i].result = "AssertionError"
                /\ WritesOf(log[i].entry) = <<>>
          /\ log[i].op = "return" =>
                \E w \in {WritesOf(log[i].entry)} :
                   /\ {w[j].uri : j \in 1..Len(w)} = NamesOfDevice
                   /\ Len(w) = Cardinality(NamesOfDevice)
                   /\ Len(w) = IF DeviceIs(GPU) THEN 5 ELSE 4
                   /\ \A j \in 1..Len(w) : w[j].result = "ok"
    /\ (phase.at = "returned" /\ LastLogged.fn = "set_parameters") =>
          /\ \A name \in NamesOfDevice :
                \E q \in parameters : q.name = name
          /\ DeviceIs(GPU) =>
                [name |-> "/huggingface-pytorch-tgi/gpu/cuda-version",
                 value |-> Config.cuda_version] \in parameters
    /\ NamesOfDevice = {} =>
          /\ parameters \in PriorStores
          /\ \A i \in 1..Len(log) : log[i].op # "set_parameter"
    /\ (Enabled(env.DLC_ENABLE_PIPELINE_EXECUTION)
        /\ StrLower(Config.device) \notin DOMAIN DLC_PIPELINE_NAME_BY_DEVICE) =>
          /\ executions = <<>>
          /\ \A i \in MadeBy("start_pipeline") :
                /\ log[i].op = "raise"
                /\ log[i].result = "AssertionError"

\* C32, in every step: a call for a device without mapping leaves the
\* parameter store and the executions as they were
UnknownDeviceChangesNothing ==
    NamesOfDevice = {} =>
       /\ parameters' = parameters
       /\ executions' = executions

\* C32: set_parameters writes for GPU and INF2 only and fails for any other
\* device before it writes anything, the parameter store left as it was;
\* start_pipeline, with the execution enabled, fails for a device without
\* a pipeline name before a pipeline is started
C32_UnknownDeviceFailsBeforeAnyWrite ==
    /\ []ParametersByDevice
    /\ [][UnknownDeviceChangesNothing]_vars

\* for a CPU release, with the execution enabled and values of an earlier
\* release in the store, set_parameters and start_pipeline were both called
\* and both raised
C32_Witness ==
    /\ DeviceIs(CPU)
    /\ Enabled(env.DLC_ENABLE_PIPELINE_EXECUTION)
    /\ parameters # {}
    /\ \E i \in MadeBy("set_parameters") : log[i].op = "raise"
    /\ \E i \in MadeBy("start_pipeline") : log[i].op = "raise"

\* for a GPU release set_parameters has returned, the five parameters
\* written
C32_WitnessGpu ==
    /\ DeviceIs(GPU)
    /\ phase.at = "returned"
    /\ LastLogged.fn = "set_parameters"
    /\ Len(WritesOf(LastLogged.entry)) = 5


(***************************************************************************)
(* Properties of the waits                                                 *)
(***************************************************************************)
\* the i-th and the j-th call are polls of the scan of one entry, the first
\* of them answered that the scan is pending
PollsOfOneWait(i, j) ==
    /\ i < j
    /\ log[i].op = "is_ecr_image_scan_pending"
    /\ log[j].op = "is_ecr_image_scan_pending"
    /\ log[i].entry = log[j].entry
    /\ log[i].result = "True"

\* C33: while test() waits for a pending scan, a sleep lies between any two
\* polls of the scan that follow each other
C33_SleepBetweenScanPolls ==
    \A i, j \in 1..Len(log) :
       PollsOfOneWait(i, j) =>
          \E s \in (i + 1)..(j - 1) : log[s].op = "sleep"

\* two polls of the scan of one entry, both answered pending, with no call
\* between them
C33_Witness ==
    /\ At("test", "scan")
    /\ \E i \in 1..(Len(log) - 1) :
          /\ PollsOfOneWait(i, i + 1)
          /\ log[i + 1].result = "True"


(***************************************************************************)
(* Properties of _refresh_credentials                                      *)
(***************************************************************************)
\* the program stands at a call of _refresh_credentials and takes the step
AtRefresh ==
    /\ \/ At("DlcPipeline", "init")
       \/ At("start_pipeline", "refresh")
    /\ phase' # phase

\* no session is cached, or more than 1800 seconds have passed since
\* last_refresh_time
RefreshDue ==
    \/ pipeline.dlc_aws = "None"
    \/ pipeline.since_refresh > 1800

\* the object exists: __init__ has returned
Constructed == pc = "running" /\ phase.fn # "DlcPipeline"

\* a call of _refresh_credentials that is due assumes the role and sets
\* last_refresh_time to now, or raises with both as they were; one that is
\* not due leaves both as they are
RefreshesIffDue ==
    AtRefresh =>
       IF RefreshDue
       THEN \/ /\ LastCall'.result = "refreshed"
               /\ pipeline'.dlc_aws = "session"
               /\ pipeline'.since_refresh = 0
            \/ /\ LastCall'.result = "ExternalError"
               /\ pipeline'.dlc_aws = pipeline.dlc_aws
               /\ phase'.at = "failed"
       ELSE /\ LastCall'.result = "kept"
            /\ pipeline' = pipeline

\* no other step touches the session, and last_refresh_time stays where it
\* is while the time goes on
OnlyRefreshSetsTheSession ==
    ~AtRefresh =>
       /\ pipeline'.dlc_aws = pipeline.dlc_aws
       /\ pipeline'.since_refresh >= pipeline.since_refresh

\* C34: _refresh_credentials assumes the role and sets last_refresh_time to
\* now if and only if no session is cached or more than 1800 seconds have
\* passed since last_refresh_time; at 1800 seconds exactly, and before,
\* session and time stay; so a constructed DlcPipeline always has a session
\* and a refresh time, which only moves forward
C34_RefreshesOnlyAfterTheInterval ==
    /\ [][RefreshesIffDue /\ OnlyRefreshSetsTheSession]_vars
    /\ [](Constructed => /\ pipeline.dlc_aws = "session"
                         /\ pipeline.since_refresh >= 0)
    /\ []((Called /\ LastCall.op = "_refresh_credentials") =>
            /\ LastCall.result = "kept" =>
                  /\ LastCall.age <= 1800
                  /\ LastCall.fn # "__init__"
            /\ LastCall.result = "refreshed" =>
                  \/ LastCall.age > 1800
                  \/ LastCall.fn = "__init__")

\* the check in the loop found the session 1800 seconds old, and kept it
C34_Witness ==
    /\ Called
    /\ LastCall.op = "_refresh_credentials"
    /\ LastCall.fn = "start_pipeline"
    /\ LastCall.age = 1800
    /\ LastCall.result = "kept"
    /\ pipeline.since_refresh = 1800
    /\ pipeline.dlc_aws = "session"


(***************************************************************************)
(* Properties of the two scripts                                           *)
(***************************************************************************)
\* the scan of entry k was polled until it was not pending, and then the
\* findings were fetched and the check of them passed
ScanChecked(k) ==
    \E i, j \in 1..Len(log) :
       /\ i < j
       /\ log[i].op = "is_ecr_image_scan_pending"
       /\ log[i].entry = k
       /\ log[i].result = "False"
       /\ log[j].op = "get_image_scan_findings"
       /\ log[j].entry = k
       /\ Succeeded(log[j].result)
       /\ ~\E r \in (j + 1)..Len(log) :
             log[r].op = "raise" /\ log[r].fn = "test" /\ log[r].entry = k

TestCompleted(k) ==
    \E c \in completed : c.entry = k /\ c.step = "test" /\ c.run = run

\* C35: in both scripts an entry completes the TEST phase only after the
\* scan of its staging image was polled until not pending and the check of
\* the CRITICAL findings passed
C35_TestCompletesOnlyAfterScanCheck ==
    \A k \in 1..Len(releases) : TestCompleted(k) => ScanChecked(k)

\* the same for tgi.py alone
TgiTestCompletesOnlyAfterScanCheck ==
    IsScript("tgi") => C35_TestCompletesOnlyAfterScanCheck

\* tgi-llamacpp.py has completed the TEST phase of every entry, and neither
\* polled a scan nor fetched findings
C35_Witness ==
    /\ IsScript("tgi-llamacpp")
    /\ At("test", "done")
    /\ \A k \in 1..Len(releases) : TestCompleted(k)
    /\ Len(releases) = 2
    /\ \A i \in 1..Len(log) :
          log[i].op \notin {"is_ecr_image_scan_pending",
                            "get_image_scan_findings"}


\* the run has ended in the constructor or in validate()
EndedUnaccepted == pc \in {"load_failed", "validate_failed"}

\* nothing was built, pulled, pushed, tested, written or started
NothingDone ==
    /\ phase = NoPhase
    /\ log = <<>>
    /\ local = {}
    /\ parameters = {}
    /\ executions = <<>>
    /\ completed = {}
    /\ recent = <<>>

\* C36: both entrypoints load the configuration and run validate() before
\* they look at the mode: a phase runs only with a configuration that was
\* loaded and found valid, and a run whose configuration fails to load or
\* to validate ends there, with no call of the engine, the registries, the
\* test harness or the pipeline made
C36_NothingRunsBeforeValidation ==
    /\ [](EndedUnaccepted => NothingDone)
    /\ []((pc = "running" \/ phase # NoPhase \/ log # <<>>) =>
             /\ loadResult = "ok"
             /\ validateResult.kind = "ok")
    /\ [](pc \in {"start", "loaded", "validated"} => NothingDone)
    /\ [][~EndedUnaccepted]_vars

\* in RELEASE mode, with the pipeline switched on, validate() has rejected
\* the second entry of a list whose first entry is valid
C36_Witness ==
    /\ pc = "validate_failed"
    /\ env.MODE = <<"R","E","L","E","A","S","E">>
    /\ Enabled(env.DLC_ENABLE_PIPELINE_EXECUTION)
    /\ Len(releases) = 2
    /\ validateResult.entry = 2
    /\ NothingDone

\* in BUILD mode the configuration did not load
C36_WitnessLoad ==
    /\ pc = "load_failed"
    /\ env.MODE = <<"B","U","I","L","D">>
    /\ NothingDone


(***************************************************************************)
(* Properties of the pipeline switch                                       *)
(***************************************************************************)
\* DLC_ENABLE_PIPELINE_EXECUTION reads true, in whatever case
ExecutionSwitchedOn ==
    /\ env.DLC_ENABLE_PIPELINE_EXECUTION # None
    /\ StrLower(env.DLC_ENABLE_PIPELINE_EXECUTION) = <<"t","r","u","e">>

IsPipelineCall(c) ==
    c.op \in {"start_pipeline_execution", "get_pipeline_status"}

IsStart(c) == c.op = "start_pipeline_execution"

\* the calls made for entry k before the i-th call
Before(i, k) ==
    SelectSeq(SubSeq(log, 1, i - 1), LAMBDA c : c.entry = k)

Done(k, step) ==
    \E c \in completed : c.entry = k /\ c.step = step /\ c.run = run

\* the i-th call starts the pipeline: stage_image has returned for the
\* entry, every parameter of the entry is written, and neither is done again
StartedAfterStageAndWrites(i) ==
    \E made \in {Before(i, log[i].entry)} :
       /\ \E s \in 1..Len(made) :
             made[s].op = "return" /\ made[s].fn = "stage_image"
       /\ Len(SelectSeq(made, LAMBDA c : c.op = "push"
                                         /\ c.fn = "stage_image"
                                         /\ c.result = "ok")) = 2
       /\ Len(SelectSeq(made, LAMBDA c : c.op = "set_parameter"
                                         /\ c.result = "ok"))
             = Len(ParametersOf(releases[log[i].entry]))
       /\ \A j \in (i + 1)..Len(log) :
             log[j].entry = log[i].entry =>
                /\ log[j].op # "set_parameter"
                /\ log[j].fn # "stage_image"

\* a pipeline is started or polled only with the switch on
PipelineCallsOnlyWhenSwitchedOn ==
    /\ \A i \in 1..Len(log) : IsPipelineCall(log[i]) => ExecutionSwitchedOn
    /\ ~ExecutionSwitchedOn => executions = <<>>

\* C37: the pipeline is started only with DLC_ENABLE_PIPELINE_EXECUTION
\* reading true in whatever case, once per entry at most, after stage_image
\* and every parameter write of the entry; with the switch not on, RELEASE
\* neither starts nor polls a pipeline, and yet publishes the tags, writes
\* the parameters and pushes the released tag: the released tag is there
\* with no execution behind it
C37_PipelineStartedOnlyWhenSwitchedOn ==
    /\ PipelineCallsOnlyWhenSwitchedOn
    /\ \A i \in 1..Len(log) :
          IsStart(log[i]) =>
                /\ StartedAfterStageAndWrites(i)
                /\ \A j \in 1..Len(log) :
                      (IsStart(log[j]) /\ log[j].entry = log[i].entry) => j = i
    /\ ~ExecutionSwitchedOn => executions = <<>>
    /\ \A k \in 1..Len(releases) :
          /\ (Done(k, "start_pipeline") /\ ExecutionSwitchedOn) =>
                \E i \in 1..Len(log) :
                   IsStart(log[i]) /\ log[i].entry = k
          /\ (Done(k, "released") /\ IsScript("tgi")) =>
                /\ Done(k, "stage_image")
                /\ Done(k, "set_parameters")
                /\ Done(k, "start_pipeline")
                /\ ImageAt(ReleasedUri(k)) # None
                /\ \A q \in 1..Len(ParametersOf(releases[k])) :
                      \E w \in parameters :
                         w.name = ParametersOf(releases[k])[q][1]
                /\ Len(SelectSeq(log, LAMBDA c : c.op = "push" /\ c.entry = k
                                                  /\ c.fn = "stage_image"
                                                  /\ c.result = "ok")) = 2

\* tgi.py has released both entries with the switch not set: the released
\* tags are in the registry, the parameters are written, and no pipeline
\* was started or polled
C37_Witness ==
    /\ IsScript("tgi")
    /\ ~ExecutionSwitchedOn
    /\ At("release", "done")
    /\ Len(releases) = 2
    /\ \A k \in 1..2 : Done(k, "released") /\ ImageAt(ReleasedUri(k)) # None
    /\ parameters # {}
    /\ executions = <<>>
    /\ \A i \in 1..Len(log) : ~IsPipelineCall(log[i])

\* with the switch reading True the pipeline was started for the second
\* entry, after the first
C37_WitnessStarted ==
    /\ env.DLC_ENABLE_PIPELINE_EXECUTION = <<"T","r","u","e">>
    /\ Len(executions) = 2
    /\ \E i \in 1..Len(log) : IsStart(log[i]) /\ log[i].entry = 2

=============================================================================
